---- MODULE Spec2Model ----
(***************************************************************************)
(* Model of the browser agent's control loop (backend/src/cli.ts runAgent), *)
(* of the screen copilot loop (backend/src/agent/orchestrator.ts) and of    *)
(* the safety helpers they call (services/executor.ts, agent/safety.ts,     *)
(* services/planner.ts).                                                    *)
(*                                                                          *)
(* Strings are TLA+ strings; the JavaScript string methods the code uses    *)
(* (toLowerCase, includes, endsWith, new URL(..).hostname) are computed     *)
(* character by character.  An optional field that is undefined is the      *)
(* empty string: the code only ever tests such fields for truthiness.       *)
(***************************************************************************)
EXTENDS Integers, Sequences, FiniteSets, TLC

(***************************************************************************)
(* Bounds                                                                   *)
(***************************************************************************)
\* largest step budget (--maxSteps) explored
MaxSteps == 4

\* largest number of planner replies per run that come from the oracle
\* process; every other planning call falls back to the local planner
MaxOracleReplies == 1

\* most polls of one waitForChange call, when the function is applied on
\* its own
MaxPolls == 2

\* most elements of a page whose snapshot is taken on its own, and most
\* successive snapshots taken of it
MaxElements == 58

MaxCalls == 2

\* frames the screen streamer sends before the model stops counting
MaxFrames == 2

(***************************************************************************)
(* JavaScript string methods                                                *)
(***************************************************************************)
Char(s, i) == SubSeq(s, i, i)

UpperChars == "ABCDEFGHIJKLMNOPQRSTUVWXYZ"

LowerChars == "abcdefghijklmnopqrstuvwxyz"

\* the lower-case letter of each upper-case letter
LowerOf ==
  [c \in {Char(UpperChars, i) : i \in 1..26} |->
     Char(LowerChars, CHOOSE i \in 1..26 : Char(UpperChars, i) = c)]

LowerChar(c) == IF c \in DOMAIN LowerOf THEN LowerOf[c] ELSE c

RECURSIVE toLowerCase(_)
toLowerCase(s) ==
  IF s = "" THEN ""
  ELSE LowerChar(Char(s, 1)) \o toLowerCase(SubSeq(s, 2, Len(s)))

includes(s, sub) ==
  \E i \in 1..(Len(s) - Len(sub) + 1) : SubSeq(s, i, i + Len(sub) - 1) = sub

endsWith(s, suffix) ==
  /\ Len(suffix) <= Len(s)
  /\ SubSeq(s, Len(s) - Len(suffix) + 1, Len(s)) = suffix

startsWith(s, prefix) ==
  /\ Len(prefix) <= Len(s)
  /\ SubSeq(s, 1, Len(prefix)) = prefix

\* 1-based position of the first occurrence of sub in s, 0 when there is none
indexOf(s, sub) ==
  IF includes(s, sub)
  THEN CHOOSE i \in 1..(Len(s) - Len(sub) + 1) :
         /\ SubSeq(s, i, i + Len(sub) - 1) = sub
         /\ \A j \in 1..(i - 1) : SubSeq(s, j, j + Len(sub) - 1) # sub
  ELSE 0

\* position of the first character of s that is one of the characters of
\* stops, Len(s) + 1 when there is none
FirstOf(s, stops) ==
  IF \E i \in 1..Len(s) : includes(stops, Char(s, i))
  THEN CHOOSE i \in 1..Len(s) :
         /\ includes(stops, Char(s, i))
         /\ \A j \in 1..(i - 1) : ~includes(stops, Char(s, j))
  ELSE Len(s) + 1

RECURSIVE StripSlashes(_)
StripSlashes(s) ==
  IF s # "" /\ Char(s, 1) = "/" THEN StripSlashes(SubSeq(s, 2, Len(s))) ELSE s

(***************************************************************************)
(* new URL(url).hostname: the scheme is the text before the first ':' and   *)
(* must be letters; http and https need a host, which is lower-cased and    *)
(* stripped of port and path; a URL without authority (about:blank) has an  *)
(* empty hostname; a string without a scheme makes the constructor throw.   *)
(***************************************************************************)
IsLetters(s) ==
  s # "" /\ \A i \in 1..Len(s) : includes(LowerChars, LowerChar(Char(s, i)))

ParseURL(url) ==
  LET c == indexOf(url, ":") IN
  IF c <= 1 \/ ~IsLetters(SubSeq(url, 1, c - 1))
  THEN [ok |-> FALSE, hostname |-> ""]
  ELSE
    LET scheme  == toLowerCase(SubSeq(url, 1, c - 1))
        rest    == SubSeq(url, c + 1, Len(url))
        special == scheme \in {"http", "https"}
        auth    == IF special THEN StripSlashes(rest)
                   ELSE SubSeq(rest, 3, Len(rest))
        host    == SubSeq(auth, 1, FirstOf(auth, ":/?#") - 1)
    IN IF special
       THEN IF host = "" THEN [ok |-> FALSE, hostname |-> ""]
            ELSE [ok |-> TRUE, hostname |-> toLowerCase(host)]
       ELSE IF startsWith(rest, "//")
            THEN [ok |-> TRUE, hostname |-> host]
            ELSE [ok |-> TRUE, hostname |-> ""]

\* array.some(pred): some element of the sequence satisfies pred
Some(seq, pred(_)) == \E i \in 1..Len(seq) : pred(seq[i])

(***************************************************************************)
(* services/executor.ts: isAllowedDomain                                    *)
(***************************************************************************)
isAllowedDomain_noDot(url, allowlist) ==
  LET parsed == ParseURL(url)
      hostname == toLowerCase(parsed.hostname)
      matches(allowed) ==
        LET pattern == toLowerCase(allowed)
        IN hostname = pattern \/ endsWith(hostname, pattern)
  IN IF parsed.ok THEN Some(allowlist, matches) ELSE FALSE

isAllowedDomain(url, allowlist) ==
  LET parsed == ParseURL(url)
      hostname == toLowerCase(parsed.hostname)
      matches(allowed) ==
        LET pattern == toLowerCase(allowed)
        IN hostname = pattern \/ endsWith(hostname, "." \o pattern)
  IN IF parsed.ok THEN Some(allowlist, matches) ELSE FALSE

(***************************************************************************)
(* Actions (types/index.ts ActionSchema).  One record shape serves both     *)
(* programs: targetId, key and url belong to the browser agent's schema,    *)
(* rationale to the screen copilot's.                                       *)
(***************************************************************************)
Act(type, targetId, text, key, url, risk, expect, rationale, done) ==
  [type |-> type, targetId |-> targetId, text |-> text, key |-> key,
   url |-> url, risk |-> risk, expect |-> expect, rationale |-> rationale,
   done |-> done]

NoAction == Act("none", "", "", "", "", "low", "", "", FALSE)

(***************************************************************************)
(* Pages the browser can show, and the snapshot captureDomSnapshot takes of *)
(* each                                                                     *)
(***************************************************************************)
Pages == {"blank", "form", "shop", "signup"}

\* the pages a change of page during a run arrives at
LandingPages == {"form", "shop"}

\* the pages a browser the run launched shows when the loop starts: that of
\* page.goto(options.url), or about:blank when no url was given
LaunchPages == {"blank", "form", "shop"}

\* the pages the first tab of a browser the run connected to can show
ConnectPages == {"blank", "shop", "signup"}

PageUrl(p) ==
  CASE p = "blank" -> "about:blank"
    [] p = "form"  -> "http://localhost:3000/form"
    [] p = "shop"  -> "https://shop.example.org/cart"
    [] p = "signup" -> "http://localhost:3000/signup"

Target(id, role, label) == [id |-> id, role |-> role, label |-> label]

PageTargets(p) ==
  CASE p = "blank" -> << >>
    [] p = "form"  -> << Target("input:Email:0", "input", "Email"),
                         Target("checkbox:Agree:1", "checkbox", "Agree"),
                         Target("select:Country:2", "select", "Country"),
                         Target("button:Submit:3", "button", "Submit") >>
    [] p = "shop"  -> << Target("button:Delete_account:0", "button",
                                "Delete account") >>
    [] p = "signup" -> << Target("input:Email:0", "input", "Email"),
                          Target("button:Submit:1", "button", "Submit") >>

PageTitle(p) ==
  CASE p = "blank" -> ""
    [] p = "form"  -> "Sign up"
    [] p = "shop"  -> "Cart"
    [] p = "signup" -> "Join"

\* targets.map(t => `${t.id}:${t.label}`).join('|')
RECURSIVE targetsSignature(_)
targetsSignature(targets) ==
  IF targets = << >> THEN ""
  ELSE IF Len(targets) = 1 THEN targets[1].id \o ":" \o targets[1].label
  ELSE targets[1].id \o ":" \o targets[1].label \o "|"
         \o targetsSignature(Tail(targets))

\* the string that is hashed: `${url}|${title}|${targetsSignature}`
canonicalString_noSeparator(url, title, targets) ==
  url \o title \o targetsSignature(targets)

canonicalString(url, title, targets) ==
  url \o "|" \o title \o "|" \o targetsSignature(targets)

\* hashString: the first 12 hex digits of the MD5 digest.  The digest is
\* not computed: it is represented by the string it is the digest of, so two
\* digests are equal here exactly when their inputs are.  Equal inputs give
\* equal digests in the program too; the program's digests can also collide
\* on different inputs, which this representation leaves out.
hashString(str) == << "md5", str >>

captureDomSnapshot(p) ==
  [url |-> PageUrl(p), title |-> PageTitle(p), page |-> p,
   pageHash |-> hashString(canonicalString(PageUrl(p), PageTitle(p),
                                           PageTargets(p))),
   targets |-> PageTargets(p), alerts |-> << >>]

\* the snapshot of each page, computed once
DomSnapshots == [p \in Pages |-> captureDomSnapshot(p)]

(***************************************************************************)
(* services/domSnapshot.ts: the extraction script of captureDomSnapshot,    *)
(* run over the elements document.querySelectorAll returns, in document     *)
(* order.  An element is a record of what the script reads from it; an      *)
(* attribute that is absent is the empty string.  offsetParent is null for  *)
(* an element that is not rendered (display: none on it or on an ancestor)  *)
(* and for an element whose own position is fixed.                          *)
(***************************************************************************)
MAX_TARGETS == 40

Element(tag, ariaRole, ariaLabel, name, id, type, placeholder, innerText, rendered, fixed) ==
  [tag |-> tag, ariaRole |-> ariaRole, ariaLabel |-> ariaLabel, name |-> name,
   id |-> id, type |-> type, placeholder |-> placeholder,
   innerText |-> innerText, rendered |-> rendered, fixed |-> fixed,
   classes |-> << >>]

\* the element with a class attribute
withClasses(el, classes) == [el EXCEPT !.classes = classes]

hasOffsetParent(el) == el.rendered /\ ~el.fixed

\* String.prototype.slice(0, n)
slice0(str, n) == IF Len(str) <= n THEN str ELSE SubSeq(str, 1, n)

\* String.prototype.trim, for blanks
RECURSIVE trim(_)
trim(str) ==
  IF str = "" THEN ""
  ELSE IF Char(str, 1) = " " THEN trim(SubSeq(str, 2, Len(str)))
  ELSE IF Char(str, Len(str)) = " " THEN trim(SubSeq(str, 1, Len(str) - 1))
  ELSE str

AlnumChars ==
  { Char(UpperChars \o LowerChars \o "0123456789", i) : i \in 1..62 }

\* label.replace(/[^a-zA-Z0-9]/g, '_')
RECURSIVE underscored(_)
underscored(str) ==
  IF str = "" THEN ""
  ELSE IF Len(str) = 1 THEN (IF str \in AlnumChars THEN str ELSE "_")
  ELSE underscored(SubSeq(str, 1, Len(str) \div 2))
         \o underscored(SubSeq(str, Len(str) \div 2 + 1, Len(str)))

\* the first of the values that is not empty: a || b || ...
RECURSIVE firstTruthy(_)
firstTruthy(values) ==
  IF Len(values) = 1 \/ Head(values) # "" THEN Head(values)
  ELSE firstTruthy(Tail(values))

elementRole(el) ==
  IF el.ariaRole = "button" \/ el.tag = "BUTTON" THEN "button"
  ELSE IF el.ariaRole = "link" \/ el.tag = "A" THEN "link"
  ELSE IF el.ariaRole = "checkbox" \/ el.type = "checkbox" THEN "checkbox"
  ELSE IF el.tag = "SELECT" THEN "select"
  ELSE IF el.tag = "INPUT" \/ el.tag = "TEXTAREA" THEN "input"
  ELSE "other"

elementLabel(el) ==
  LET text == slice0(trim(el.innerText), 50)
      base == firstTruthy(<< el.ariaLabel, text, el.placeholder, el.name,
                             el.id, toLowerCase(el.tag) >>)
      typed == IF el.type # "" THEN base \o " [" \o el.type \o "]" ELSE base
  IN slice0(typed, 60)

\* the id with the ordinal counted from 1
stableId_fromOne(role, label, index) ==
  role \o ":" \o slice0(underscored(label), 30) \o ":" \o ToString(index + 1)

stableId(role, label, index) ==
  role \o ":" \o slice0(underscored(label), 30) \o ":" \o ToString(index)

\* the locator the script stores in a target: locatorType and locatorValue
elementText(el) == slice0(trim(el.innerText), 50)

RECURSIVE join(_, _)
join(strs, sep) ==
  IF strs = << >> THEN ""
  ELSE IF Len(strs) = 1 THEN strs[1]
  ELSE strs[1] \o sep \o join(Tail(strs), sep)

targetLocator(el, role) ==
  LET text == elementText(el)
      classes == join(SubSeq(el.classes, 1,
                             IF Len(el.classes) <= 2 THEN Len(el.classes) ELSE 2),
                      ".")
  IN IF el.ariaLabel # "" \/ (role # "other" /\ text # "")
     THEN [locatorType |-> "role",
           locatorValue |-> [role |-> role,
                             name |-> IF el.ariaLabel # "" THEN el.ariaLabel
                                      ELSE text]]
     ELSE IF el.id # ""
     THEN [locatorType |-> "css", locatorValue |-> [selector |-> "#" \o el.id]]
     ELSE IF el.name # ""
     THEN [locatorType |-> "css",
           locatorValue |-> [selector |-> "[name=\"" \o el.name \o "\"]"]]
     ELSE [locatorType |-> "css",
           locatorValue |->
             [selector |-> IF classes # ""
                           THEN toLowerCase(el.tag) \o "." \o classes
                           ELSE toLowerCase(el.tag)]]

\* the object pushed to results
ExtractedTarget(id, role, label, locator) ==
  [id |-> id, role |-> role, label |-> label,
   locatorType |-> locator.locatorType, locatorValue |-> locator.locatorValue]

\* elements.forEach of the script from element i on, with the script's
\* variables index and seen as they stand: what it pushes to results from
\* there on.  Once index has reached the cap every later element returns
\* at once.
RECURSIVE forEachElement(_, _, _, _)
forEachElement(elements, i, index, seen) ==
  IF i > Len(elements) \/ index >= MAX_TARGETS THEN << >>
  ELSE LET el == elements[i]
           role == elementRole(el)
           label == elementLabel(el)
           id == stableId(role, label, index)
       IN IF ~hasOffsetParent(el) /\ el.tag # "BODY"
          THEN forEachElement(elements, i + 1, index, seen)
          ELSE IF id \in seen
          THEN forEachElement(elements, i + 1, index, seen)
          ELSE << ExtractedTarget(id, role, label, targetLocator(el, role)) >>
                 \o forEachElement(elements, i + 1, index + 1, seen \cup {id})

\* page.evaluate of the script: index and seen are the script's own and
\* start at firstIndex (0 in the program) and empty
extractTargets(elements, firstIndex) ==
  forEachElement(elements, 1, firstIndex, {})

\* captureDomSnapshot of a page state [url, title, elements]
snapshotOf(state, firstIndex) ==
  LET targets == extractTargets(state.elements, firstIndex)
  IN [url |-> state.url, title |-> state.title,
      pageHash |-> hashString(canonicalString(state.url, state.title, targets)),
      targets |-> SubSeq(targets, 1,
                         IF Len(targets) <= MAX_TARGETS THEN Len(targets)
                         ELSE MAX_TARGETS)]

NoDom == [url |-> "", title |-> "", page |-> "none",
          pageHash |-> hashString(""), targets |-> << >>]

(***************************************************************************)
(* services/changeDetector.ts: waitForChange.  A call is described by what  *)
(* its polls meet: polls[i].page is the page the i-th captureDomSnapshot    *)
(* finds ("throws" when it rejects), polls[i].vision what getLatestVision   *)
(* returns then, quietFrom the first poll at which a second has passed      *)
(* since the call began, finalPage what the snapshot after the loop finds.  *)
(***************************************************************************)
NoVision == [present |-> FALSE, snippets |-> {}]

Vision(snippets) == [present |-> TRUE, snippets |-> snippets]

\* jaccardSimilarity with 0 for two empty arrays
jaccardSimilarity_emptyZero(a, b) ==
  IF a \cup b = {} THEN [num |-> 0, den |-> 1]
  ELSE [num |-> Cardinality(a \cap b), den |-> Cardinality(a \cup b)]

\* jaccardSimilarity, as the fraction num / den
jaccardSimilarity(a, b) ==
  IF a \cup b = {} THEN [num |-> 1, den |-> 1]
  ELSE [num |-> Cardinality(a \cap b), den |-> Cardinality(a \cup b)]

\* similarity < 0.7
BelowThreshold(sim) == 10 * sim.num < 7 * sim.den

ChangeResult(changed, domChanged, visionChanged, newPage, timeout) ==
  [called |-> TRUE, threw |-> FALSE, changed |-> changed,
   domChanged |-> domChanged, visionChanged |-> visionChanged,
   newPage |-> newPage, timeout |-> timeout]

\* the call rejected: a captureDomSnapshot inside it threw
ChangeThrew ==
  [called |-> TRUE, threw |-> TRUE, changed |-> FALSE, domChanged |-> FALSE,
   visionChanged |-> FALSE, newPage |-> "none", timeout |-> FALSE]

\* no call made
NoChange ==
  [called |-> FALSE, threw |-> FALSE, changed |-> FALSE, domChanged |-> FALSE,
   visionChanged |-> FALSE, newPage |-> "none", timeout |-> FALSE]

RECURSIVE pollLoop(_, _, _, _, _, _)
pollLoop(prevDom, prevVisionSnippets, polls, quietFrom, finalPage, i) ==
  IF i > Len(polls)
  THEN IF finalPage = "throws" THEN ChangeThrew
       ELSE ChangeResult(FALSE, FALSE, FALSE, finalPage, TRUE)
  ELSE IF polls[i].page = "throws" THEN ChangeThrew
  ELSE LET currentDom == DomSnapshots[polls[i].page]
           domChanged == \/ currentDom.pageHash # prevDom.pageHash
                         \/ currentDom.url # prevDom.url
                         \/ Len(currentDom.alerts) # Len(prevDom.alerts)
           currentVision == polls[i].vision
       IN IF domChanged
          THEN ChangeResult(TRUE, TRUE, FALSE, polls[i].page, FALSE)
          ELSE IF /\ i >= quietFrom
                  /\ currentVision.present
                  /\ BelowThreshold(jaccardSimilarity(prevVisionSnippets,
                                                      currentVision.snippets))
          THEN ChangeResult(TRUE, FALSE, TRUE, polls[i].page, FALSE)
          ELSE pollLoop(prevDom, prevVisionSnippets, polls, quietFrom,
                        finalPage, i + 1)

waitForChange_domAlsoVision(prevDom, prevVision, polls, quietFrom, finalPage) ==
  LET r == pollLoop(prevDom, prevVision.snippets, polls, quietFrom, finalPage, 1)
  IN IF r.domChanged THEN [r EXCEPT !.visionChanged = TRUE] ELSE r

\* waitForChange handing back what its last poll found
waitForChange_lastPoll(prevDom, prevVision, polls, quietFrom, finalPage) ==
  LET r == pollLoop(prevDom, prevVision.snippets, polls, quietFrom, finalPage, 1)
  IN IF r.domChanged THEN [r EXCEPT !.newPage = polls[Len(polls)].page] ELSE r

waitForChange(prevDom, prevVision, polls, quietFrom, finalPage) ==
  pollLoop(prevDom, prevVision.snippets, polls, quietFrom, finalPage, 1)

\* services/domSnapshot.ts findTarget: is there a target with this id
findTarget(snapshot, targetId) ==
  \E i \in 1..Len(snapshot.targets) : snapshot.targets[i].id = targetId

(***************************************************************************)
(* services/executor.ts: isRiskyIntent                                      *)
(***************************************************************************)
riskyKeywords ==
  << "submit", "send", "publish", "delete", "pay", "purchase",
     "order", "transfer", "confirm", "permissions", "remove" >>

isRiskyIntent_noTier(action) ==
  LET textToCheck == toLowerCase(action.text) \o " " \o toLowerCase(action.expect)
      hit(kw) == includes(textToCheck, kw)
  IN Some(riskyKeywords, hit)

isRiskyIntent(action) ==
  LET textToCheck == toLowerCase(action.text) \o " " \o toLowerCase(action.expect)
      hit(kw) == includes(textToCheck, kw)
  IN Some(riskyKeywords, hit) \/ action.risk = "high"

(***************************************************************************)
(* agent/safety.ts: checkActionSafety, with RISKY_KEYWORDS of the screen    *)
(* copilot's types/index.ts                                                 *)
(***************************************************************************)
RISKY_KEYWORDS ==
  << "submit", "send", "publish", "delete", "pay", "purchase",
     "order", "transfer", "confirm", "remove", "permission",
     "upload", "download", "install", "uninstall", "grant" >>

InputTypes == {"move_mouse", "click", "type_text", "press_key"}

checkActionSafety_noRewrite(action, mode) ==
  LET textToCheck == toLowerCase(action.text) \o " "
                       \o toLowerCase(action.rationale) \o " "
                       \o toLowerCase(action.expect)
      hit(kw) == includes(textToCheck, kw)
  IN IF action.risk = "high"
     THEN [requiresApproval |-> TRUE, finalAction |-> action]
     ELSE IF Some(RISKY_KEYWORDS, hit)
     THEN [requiresApproval |-> TRUE, finalAction |-> action]
     ELSE IF mode = "execute" /\ action.type \in InputTypes
     THEN [requiresApproval |-> TRUE, finalAction |-> action]
     ELSE [requiresApproval |-> FALSE, finalAction |-> action]

checkActionSafety(action, mode) ==
  LET textToCheck == toLowerCase(action.text) \o " "
                       \o toLowerCase(action.rationale) \o " "
                       \o toLowerCase(action.expect)
      hit(kw) == includes(textToCheck, kw)
  IN IF mode = "proposal" /\ action.type \in InputTypes
     THEN [requiresApproval |-> FALSE,
           finalAction |-> [action EXCEPT !.type = "propose",
                              !.rationale = "[PROPOSAL] " \o action.rationale]]
     ELSE IF action.risk = "high"
     THEN [requiresApproval |-> TRUE, finalAction |-> action]
     ELSE IF Some(RISKY_KEYWORDS, hit)
     THEN [requiresApproval |-> TRUE, finalAction |-> action]
     ELSE IF mode = "execute" /\ action.type \in InputTypes
     THEN [requiresApproval |-> TRUE, finalAction |-> action]
     ELSE [requiresApproval |-> FALSE, finalAction |-> action]

(***************************************************************************)
(* services/executor.ts: executeAction.  opOk says whether the browser      *)
(* operation (click, fill, press, wheel, goto) went through; when it throws *)
(* the catch turns the exception into a returned failure.                   *)
(***************************************************************************)
Ok == [success |-> TRUE, error |-> ""]

Fail(msg) == [success |-> FALSE, error |-> msg]

\* services/executor.ts getLocator.  The result is the Playwright call that
\* builds the locator.  obj.field of a JavaScript object is undefined when
\* the object has no such property; a string has no property role, name or
\* selector.
Undefined == "undefined"

property(obj, field) == IF field \in DOMAIN obj THEN obj[field] ELSE Undefined

stringProperty(str, field) == Undefined

truthy(value) == value # Undefined /\ value # ""

TextFallback(target) ==
  [call |-> "locator.first", arg |-> "text=\"" \o target.label \o "\"",
   name |-> Undefined]

getLocator(target) ==
  LET value == target.locatorValue
  IN CASE target.locatorType = "role" /\ truthy(property(value, "role")) ->
            [call |-> "getByRole",
             arg |-> stringProperty(property(value, "role"), "role"),
             name |-> stringProperty(property(value, "role"), "name")]
       [] target.locatorType = "label" /\ truthy(property(value, "label")) ->
            [call |-> "getByLabel",
             arg |-> stringProperty(property(value, "label"), "name"),
             name |-> Undefined]
       [] target.locatorType = "css" /\ truthy(property(value, "css")) ->
            [call |-> "locator",
             arg |-> stringProperty(property(value, "css"), "selector"),
             name |-> Undefined]
       [] OTHER -> TextFallback(target)

\* executeAction without its catch: the exception leaves the call
executeAction_noCatch(action, dom, opOk) ==
  LET op == IF opOk THEN Ok ELSE [thrown |-> "browser operation failed"] IN
  CASE action.type = "click" ->
         IF action.targetId = "" THEN Fail("No targetId for click")
         ELSE IF ~findTarget(dom, action.targetId)
         THEN Fail("Target not found: " \o action.targetId)
         ELSE op
    [] action.type = "type_text" ->
         IF action.targetId = "" THEN Fail("No targetId for type_text")
         ELSE IF action.text = "" THEN Fail("No text for type_text")
         ELSE IF ~findTarget(dom, action.targetId)
         THEN Fail("Target not found: " \o action.targetId)
         ELSE op
    [] action.type = "press_key" ->
         IF action.key = "" THEN Fail("No key for press_key") ELSE op
    [] action.type = "scroll" -> op
    [] action.type = "wait" -> op
    [] action.type = "navigate" ->
         IF action.url = "" THEN Fail("No url for navigate") ELSE op
    [] action.type \in {"ask_user", "stop"} -> Ok
    [] OTHER -> Fail("Unknown action type: " \o action.type)

executeAction(action, dom, opOk) ==
  LET op == IF opOk THEN Ok ELSE Fail("browser operation failed") IN
  CASE action.type = "click" ->
         IF action.targetId = "" THEN Fail("No targetId for click")
         ELSE IF ~findTarget(dom, action.targetId)
         THEN Fail("Target not found: " \o action.targetId)
         ELSE op
    [] action.type = "type_text" ->
         IF action.targetId = "" THEN Fail("No targetId for type_text")
         ELSE IF action.text = "" THEN Fail("No text for type_text")
         ELSE IF ~findTarget(dom, action.targetId)
         THEN Fail("Target not found: " \o action.targetId)
         ELSE op
    [] action.type = "press_key" ->
         IF action.key = "" THEN Fail("No key for press_key") ELSE op
    [] action.type = "scroll" -> op
    [] action.type = "wait" -> op
    [] action.type = "navigate" ->
         IF action.url = "" THEN Fail("No url for navigate") ELSE op
    [] action.type \in {"ask_user", "stop"} -> Ok
    [] OTHER -> Fail("Unknown action type: " \o action.type)

\* the browser operations executeAction starts, in order: none before a
\* returned validation failure, none for ask_user and stop, and one for every
\* other kind; an operation that throws ends the call in the catch
browserOps(action, dom) ==
  IF ~executeAction(action, dom, TRUE).success THEN << >>
  ELSE CASE action.type = "click" -> << "locator.click" >>
         [] action.type = "type_text" -> << "locator.fill" >>
         [] action.type = "press_key" -> << "keyboard.press" >>
         [] action.type = "scroll" -> << "mouse.wheel" >>
         [] action.type = "wait" -> << "waitForTimeout" >>
         [] action.type = "navigate" -> << "page.goto" >>
         [] OTHER -> << >>

\* agent/executor.ts: the screen copilot's executor stub
agentExecuteAction(action) ==
  IF action.type \in {"propose", "move_mouse", "click", "type_text",
                      "press_key", "wait", "stop", "ask_user"}
  THEN [success |-> TRUE, executed |-> action.type \in {"wait", "stop", "ask_user"}]
  ELSE [success |-> FALSE, executed |-> FALSE]

(***************************************************************************)
(* services/planner.ts: mockPlanner, the local heuristic planner            *)
(***************************************************************************)
FirstIndex(seq, pred(_)) ==
  IF \E i \in 1..Len(seq) : pred(seq[i])
  THEN CHOOSE i \in 1..Len(seq) :
         pred(seq[i]) /\ \A j \in 1..(i - 1) : ~pred(seq[j])
  ELSE 0

\* mockPlanner counting only the attempts that succeeded
mockPlanner_retriesFailed(dom, history) ==
  LET filledInputs ==
        { history[i].action.targetId : i \in
            { j \in 1..Len(history) : /\ history[j].action.type = "type_text"
                                      /\ history[j].result = "success"
                                      /\ history[j].action.targetId # "" } }
      clickedElements ==
        { history[i].action.targetId : i \in
            { j \in 1..Len(history) : /\ history[j].action.type = "click"
                                      /\ history[j].result = "success"
                                      /\ history[j].action.targetId # "" } }
      unfilled(t) == /\ t.role = "input"
                     /\ t.id \notin filledInputs
                     /\ ~includes(t.label, "checkbox")
      freshSelect(t) == t.role = "select" /\ t.id \notin clickedElements
      freshCheckbox(t) == t.role = "checkbox" /\ t.id \notin clickedElements
      i == FirstIndex(dom.targets, unfilled)
      s == FirstIndex(dom.targets, freshSelect)
      c == FirstIndex(dom.targets, freshCheckbox)
  IN IF i # 0
     THEN LET input == dom.targets[i]
              isEmail == includes(toLowerCase(input.label), "email")
              isName == includes(toLowerCase(input.label), "name")
              text == IF isEmail THEN "demo@example.com"
                      ELSE IF isName THEN "Demo User" ELSE "demo value"
          IN Act("type_text", input.id, text, "", "", "low",
                 "Fill " \o input.label \o " with dummy data", "", FALSE)
     ELSE IF s # 0
     THEN Act("click", dom.targets[s].id, "", "", "", "low",
              "Open " \o dom.targets[s].label \o " dropdown", "", FALSE)
     ELSE IF c # 0
     THEN Act("click", dom.targets[c].id, "", "", "", "low",
              "Toggle " \o dom.targets[c].label, "", FALSE)
     ELSE Act("stop", "", "", "", "", "low",
              "Form filled with dummy data, stopping before submit as requested",
              "", TRUE)

mockPlanner(dom, history) ==
  LET filledInputs ==
        { history[i].action.targetId : i \in
            { j \in 1..Len(history) : /\ history[j].action.type = "type_text"
                                      /\ history[j].action.targetId # "" } }
      clickedElements ==
        { history[i].action.targetId : i \in
            { j \in 1..Len(history) : /\ history[j].action.type = "click"
                                      /\ history[j].action.targetId # "" } }
      unfilled(t) == /\ t.role = "input"
                     /\ t.id \notin filledInputs
                     /\ ~includes(t.label, "checkbox")
      freshSelect(t) == t.role = "select" /\ t.id \notin clickedElements
      freshCheckbox(t) == t.role = "checkbox" /\ t.id \notin clickedElements
      i == FirstIndex(dom.targets, unfilled)
      s == FirstIndex(dom.targets, freshSelect)
      c == FirstIndex(dom.targets, freshCheckbox)
  IN IF i # 0
     THEN LET input == dom.targets[i]
              isEmail == includes(toLowerCase(input.label), "email")
              isName == includes(toLowerCase(input.label), "name")
              text == IF isEmail THEN "demo@example.com"
                      ELSE IF isName THEN "Demo User" ELSE "demo value"
          IN Act("type_text", input.id, text, "", "", "low",
                 "Fill " \o input.label \o " with dummy data", "", FALSE)
     ELSE IF s # 0
     THEN Act("click", dom.targets[s].id, "", "", "", "low",
              "Open " \o dom.targets[s].label \o " dropdown", "", FALSE)
     ELSE IF c # 0
     THEN Act("click", dom.targets[c].id, "", "", "", "low",
              "Toggle " \o dom.targets[c].label, "", FALSE)
     ELSE Act("stop", "", "", "", "", "low",
              "Form filled with dummy data, stopping before submit as requested",
              "", TRUE)

(***************************************************************************)
(* services/planner.ts: planNextAction.  oracleOk says whether the oracle   *)
(* process returned JSON that passed the schema; reply is that action.      *)
(***************************************************************************)
UnvalidatedTypes == {"ask_user", "stop", "navigate", "wait"}

InvalidTargetStop(action) ==
  Act("stop", "", "", "", "", "low",
      "Error: targetId \"" \o action.targetId \o "\" not found in targets list",
      "", FALSE)

validateTargetId_typeOnly(action, dom) ==
  IF /\ action.targetId # ""
     /\ action.type \in {"click", "type_text"}
     /\ ~findTarget(dom, action.targetId)
  THEN InvalidTargetStop(action)
  ELSE action

validateTargetId(action, dom) ==
  IF /\ action.targetId # ""
     /\ action.type \notin UnvalidatedTypes
     /\ ~findTarget(dom, action.targetId)
  THEN InvalidTargetStop(action)
  ELSE action

planNextAction_failStops(dom, history, oracleOk, reply) ==
  IF oracleOk THEN validateTargetId(reply, dom)
  ELSE Act("stop", "", "", "", "", "low", "Planner failed", "", FALSE)

\* oracleOk: the oracle process ended with code 0 and its output held JSON
\* that passed ActionSchema.parse, the parsed action being reply; anything
\* else throws inside the try block and reaches the catch
planNextAction(dom, history, oracleOk, reply) ==
  IF oracleOk THEN validateTargetId(reply, dom) ELSE mockPlanner(dom, history)

\* agent/planner_cli.ts: planNextAction of the screen copilot
PlannerErrorAction ==
  Act("ask_user", "", "Planner error. What should I do?", "", "", "low",
      "User will provide guidance", "Planner encountered an error", FALSE)

agentPlanNextAction(oracleOk, reply) ==
  IF oracleOk THEN reply ELSE PlannerErrorAction

(***************************************************************************)
(* cli.ts runAgent: the two approval gates in front of executeAction        *)
(***************************************************************************)
needsNavigationApproval_inverted(action, allowlist) ==
  /\ action.type = "navigate"
  /\ action.url # ""
  /\ isAllowedDomain(action.url, allowlist)

needsNavigationApproval(action, allowlist) ==
  /\ action.type = "navigate"
  /\ action.url # ""
  /\ ~isAllowedDomain(action.url, allowlist)

(***************************************************************************)
(* What the planning oracle may answer                                      *)
(***************************************************************************)
GhostTarget == "button:Ghost:9"

OracleActions ==
  { Act("click", "checkbox:Agree:1", "", "", "", "low", "Toggle agree", "", FALSE),
    Act("type_text", "input:Email:0", "upload report", "", "", "low",
        "Field filled", "", FALSE),
    Act("press_key", "", "", "Enter", "", "high", "Form goes", "", FALSE),
    Act("scroll", GhostTarget, "", "", "", "low", "Page scrolls", "", FALSE),
    Act("navigate", GhostTarget, "", "", "http://localhost:3000/next", "low",
        "Next page", "", FALSE),
    Act("navigate", "", "", "", "https://evil.test/", "low", "Other site", "", FALSE),
    Act("navigate", "", "", "", "not a url", "low", "Other site", "", FALSE),
    Act("navigate", "", "", "", "", "low", "Other site", "", FALSE),
    Act("ask_user", "", "Proceed?", "", "", "low", "User answers", "", FALSE) }

AgentOracleActions ==
  { Act("click", "", "", "", "", "high", "Order placed", "Click the Buy button", FALSE),
    Act("click", "", "", "", "", "low", "Menu opens", "Open the menu", FALSE),
    Act("type_text", "", "hello", "", "", "low", "Name filled", "Fill the name", FALSE),
    Act("press_key", "", "", "Enter", "", "low", "Form goes", "Press Enter", FALSE),
    Act("move_mouse", "", "", "", "", "low", "Pointer moves", "Hover the menu", FALSE),
    Act("type_text", "", "please DELETE this", "", "", "low", "Text typed",
        "Fill the box", FALSE),
    Act("propose", "", "", "", "", "high", "Would click", "Suggest a click", FALSE),
    Act("wait", "", "", "", "", "low", "Page settles", "Let the page load", FALSE),
    Act("wait", "", "", "", "", "low", "Bar fills", "Wait for the upload", FALSE),
    Act("ask_user", "", "Which form?", "", "", "low", "User answers",
        "Two forms visible", FALSE),
    Act("stop", "", "", "", "", "low", "Task complete", "Goal accomplished", TRUE) }

\* options.allowlist as parseArgs builds it when --allowlist is not given
AllowlistInputs == { << "localhost", "127.0.0.1" >> }

(***************************************************************************)
(* State                                                                    *)
(***************************************************************************)
VARIABLES
  prog,            \* which entry point runs: "cli" (runAgent) or "orch" (Orchestrator)
  pc,              \* where the run is
  isConnectMode,   \* runAgent: --connect given
  mode,            \* Orchestrator: "proposal" or "execute"
  allowlist,       \* options.allowlist
  ownsBrowser,     \* runAgent's ownsBrowser
  browser,         \* runAgent's variable browser: "unset" or "set"
  launched,        \* chromium.launch has started a browser for this run
  closeCalls,      \* number of close() calls made on the browser
  page,            \* the page the browser shows
  currentStep,     \* AgentState.currentStep
  maxSteps,        \* AgentState.maxSteps
  history,         \* AgentState.history
  stuckCounter,    \* AgentState.stuckCounter
  running,         \* AgentState.running
  dom,             \* the snapshot captured in this step
  action,          \* the action planned in this step
  oracleReply,     \* what the oracle answered in this step, NoAction if nothing usable
  navApproved,     \* the human approved this step's out-of-allowlist navigation
  riskApproved,    \* the human approved this step's risky action
  changeResult,    \* what waitForChange returned in this step
  userAnswer,      \* the latest answer typed at an ask_user prompt, "" if none
  actionLog,       \* the records logger.logAction has appended to actions.jsonl
  lastExec,        \* the latest invocation of the executor: step, action, the
                   \*   approvals given before it, whether the action's target
                   \*   was in the snapshot, whether safety rewrote the action
  oracleReplies,   \* number of usable oracle replies so far
  finalSummaries,  \* the records written by writeFinalSummary
  started,         \* the agent loop has been entered
  interrupted,     \* SIGINT has been delivered
  qUrl,            \* isAllowedDomain applied on its own: the url,
  qAllowlist,      \*   the allowlist,
  qCalled,         \*   whether the call has been made,
  qResult,         \*   and its result
  wArgs,           \* waitForChange applied on its own: its arguments
  wResult,         \*   and its result
  hArgs,           \* the page hash of two page states: the states
  hResult,         \*   and the canonical string and hash of each
  sArgs,           \* captureDomSnapshot applied on its own: the page state
  sResult,         \*   and the snapshots returned so far, in order
  eArgs,           \* executeAction applied on its own: its arguments
  eResult,         \*   and what the calls made so far came back with
  lResult,         \* getLocator applied to the targets of a snapshot: the calls built
  streamer,        \* the ScreenStreamer object: page, clients, intervalId, running
  timers,          \* the interval timers of the runtime: the ids setInterval has
                   \*   handed out, the active ones, the ticks awaiting a screenshot
  sockets,         \* readyState of each WebSocket
  wire             \* the frames sent to clients, the latest call and its effect

streamVars == << streamer, timers, sockets, wire >>

vars == << prog, pc, actionLog, isConnectMode, mode, allowlist, ownsBrowser, browser,
           launched, closeCalls, page, currentStep, maxSteps, history,
           stuckCounter, running, dom, action, oracleReply, navApproved,
           riskApproved, lastExec, userAnswer, oracleReplies, finalSummaries, started,
           interrupted, qUrl, qAllowlist, qCalled, qResult, changeResult,
           wArgs, wResult, hArgs, hResult, sArgs, sResult,
                  eArgs, eResult, lResult, streamVars >>

browserVars == << ownsBrowser, browser, launched, closeCalls >>

agentState == << currentStep, maxSteps, history, stuckCounter, running >>

stepVars == << dom, action, oracleReply, navApproved, riskApproved,
              changeResult >>

queryVars == << qUrl, qAllowlist, qCalled, qResult, wArgs, wResult, hArgs,
               hResult, sArgs, sResult,
                  eArgs, eResult, lResult, streamVars >>

NoExec == [step |-> 0, action |-> NoAction, navApproved |-> FALSE,
           riskApproved |-> FALSE, targetKnown |-> TRUE, rewritten |-> FALSE]

\* the stuck test at the head of a step: state.stuckCounter >= 3
StuckThreshold == 3

isStuck_late(counter) == counter > StuckThreshold

isStuck(counter) == counter >= StuckThreshold

NoChangeArgs == [prevPage |-> "none", prevVision |-> NoVision, polls |-> << >>,
                 quietFrom |-> 1, finalPage |-> "none"]

NoPageState == [url |-> "", title |-> "", targets |-> << >>]

NoHashArgs == << NoPageState, NoPageState >>

NoHashResult == [called |-> FALSE, strings |-> << "", "" >>,
                 hashes |-> << hashString(""), hashString("") >>]

NoSnapshotArgs == [url |-> "", title |-> "", elements |-> << >>]

NoExecArgs == [action |-> NoAction, dom |-> DomSnapshots["blank"],
               opOk |-> TRUE]

\* the WebSockets that may connect to the server
Clients == {"ws1", "ws2"}

\* a ScreenStreamer as constructed: no page, no clients, no interval, not
\* running; intervalId 0 stands for null, the ids of timers start at 1
NewStreamer == [page |-> FALSE, clients |-> {}, intervalId |-> 0, running |-> FALSE]

\* the screen streamer is not being exercised
IdleStreamer ==
  /\ streamer = NewStreamer
  /\ timers = [created |-> 0, active |-> {}, capturing |-> 0]
  /\ sockets = [ws \in Clients |-> "OPEN"]
  /\ wire = [frames |-> 0, op |-> "none", effect |-> "none"]

\* waitForChange, the page hash and captureDomSnapshot are not being
\* applied on their own
IdleCalls ==
  /\ wArgs = NoChangeArgs
  /\ wResult = NoChange
  /\ hArgs = NoHashArgs
  /\ hResult = NoHashResult
  /\ sArgs = NoSnapshotArgs
  /\ sResult = << >>
  /\ eArgs = NoExecArgs
  /\ eResult = << >>
  /\ lResult = << >>
  /\ IdleStreamer

InitRun ==
  /\ pc = "start"
  /\ ownsBrowser = TRUE
  /\ browser = "unset"
  /\ launched = FALSE
  /\ closeCalls = 0
  /\ page = "blank"
  /\ currentStep = 0
  /\ history = << >>
  /\ stuckCounter = 0
  /\ running = FALSE
  /\ dom = NoDom
  /\ action = NoAction
  /\ oracleReply = NoAction
  /\ navApproved = FALSE
  /\ riskApproved = FALSE
  /\ changeResult = NoChange
  /\ lastExec = NoExec
  /\ userAnswer = ""
  /\ actionLog = << >>
  /\ oracleReplies = 0
  /\ finalSummaries = << >>
  /\ started = FALSE
  /\ interrupted = FALSE

Init ==
  /\ InitRun
  /\ maxSteps \in 0..MaxSteps
  /\ qUrl = ""
  /\ qAllowlist = << >>
  /\ qCalled = FALSE
  /\ qResult = FALSE
  /\ IdleCalls
  /\ \/ /\ prog = "cli"
        /\ isConnectMode \in BOOLEAN
        /\ mode = "execute"
        /\ allowlist \in AllowlistInputs
     \/ /\ prog = "orch"
        /\ isConnectMode = FALSE
        /\ mode \in {"proposal", "execute"}
        /\ allowlist = << >>

(***************************************************************************)
(* cli.ts runAgent: start-up                                                *)
(***************************************************************************)
\* connectToExistingBrowser and the assignments after it; a throw leaves
\* browser unset and ownsBrowser true
ConnectToExistingBrowser ==
  /\ prog = "cli" /\ pc = "start" /\ isConnectMode
  /\ \/ /\ browser' = "set"
        /\ ownsBrowser' = FALSE
        /\ page' \in ConnectPages
        /\ pc' = "checkDomain"
        /\ UNCHANGED << launched, closeCalls >>
     \/ /\ pc' = "finally"
        /\ UNCHANGED << browserVars, page >>
  /\ UNCHANGED << prog, actionLog, isConnectMode, mode, allowlist, agentState, stepVars,
                  lastExec, userAnswer, oracleReplies, finalSummaries, started,
                  interrupted, queryVars >>

\* launchNewBrowser, the assignments after it and the first page.goto;
\* runAgent's variable browser is assigned only when launchNewBrowser returns
LaunchNewBrowser ==
  /\ prog = "cli" /\ pc = "start" /\ ~isConnectMode
  /\ \E outcome \in {"launchThrows", "setupThrows", "gotoThrows", "ok"} :
       /\ launched' = (outcome # "launchThrows")
       /\ browser' = IF outcome \in {"gotoThrows", "ok"} THEN "set" ELSE "unset"
       /\ IF outcome = "ok"
          THEN page' \in LaunchPages /\ pc' = "checkDomain"
          ELSE page' = page /\ pc' = "finally"
  /\ UNCHANGED << prog, actionLog, isConnectMode, mode, allowlist, ownsBrowser, closeCalls,
                  agentState, stepVars, lastExec, userAnswer, oracleReplies,
                  finalSummaries, started, interrupted, queryVars >>

\* the check of the starting page with the answer to its prompt ignored
CheckStartDomain_declineIgnored ==
  /\ prog = "cli" /\ pc = "checkDomain"
  /\ LET currentUrl == PageUrl(page)
         enterLoop == /\ currentStep' = 0
                      /\ history' = << >>
                      /\ stuckCounter' = 0
                      /\ running' = TRUE
                      /\ started' = TRUE
                      /\ pc' = "loop"
                      /\ UNCHANGED << maxSteps, closeCalls >>
     IN IF /\ currentUrl # "" /\ currentUrl # "about:blank"
           /\ ~isAllowedDomain(currentUrl, allowlist)
        THEN \E approved \in BOOLEAN :
               IF approved
               THEN /\ allowlist' = Append(allowlist, ParseURL(currentUrl).hostname)
                    /\ enterLoop
               ELSE /\ enterLoop
                    /\ UNCHANGED allowlist
        ELSE /\ enterLoop
             /\ UNCHANGED allowlist
  /\ UNCHANGED << prog, actionLog, isConnectMode, mode, ownsBrowser, browser, launched,
                  page, stepVars, lastExec, userAnswer, oracleReplies, finalSummaries,
                  interrupted, queryVars >>

\* the allowlist check of the starting page, then the creation of the state
CheckStartDomain ==
  /\ prog = "cli" /\ pc = "checkDomain"
  /\ LET currentUrl == PageUrl(page)
         enterLoop == /\ currentStep' = 0
                      /\ history' = << >>
                      /\ stuckCounter' = 0
                      /\ running' = TRUE
                      /\ started' = TRUE
                      /\ pc' = "loop"
                      /\ UNCHANGED << maxSteps, closeCalls >>
     IN IF /\ currentUrl # "" /\ currentUrl # "about:blank"
           /\ ~isAllowedDomain(currentUrl, allowlist)
        THEN \E approved \in BOOLEAN :
               IF approved
               THEN /\ allowlist' = Append(allowlist, ParseURL(currentUrl).hostname)
                    /\ enterLoop
               ELSE /\ closeCalls' = IF ownsBrowser THEN closeCalls + 1 ELSE closeCalls
                    /\ pc' = "finally"
                    /\ UNCHANGED << allowlist, agentState, started >>
        ELSE /\ enterLoop
             /\ UNCHANGED allowlist
  /\ UNCHANGED << prog, actionLog, isConnectMode, mode, ownsBrowser, browser, launched,
                  page, stepVars, lastExec, userAnswer, oracleReplies, finalSummaries,
                  interrupted, queryVars >>

(***************************************************************************)
(* cli.ts runAgent: the agent loop                                          *)
(***************************************************************************)
Entry(step, act, result, error) ==
  [step |-> step, action |-> act, result |-> result, error |-> error]

\* the loop test
loopContinues_inclusive(isRunning, step, budget) == isRunning /\ step <= budget

loopContinues(isRunning, step, budget) == isRunning /\ step < budget

\* the loop test, the step counter, the snapshot and the CAPTCHA check; a
\* rejected captureDomSnapshot leaves the try block through catch
StepBegin ==
  /\ prog = "cli" /\ pc = "loop"
  /\ IF loopContinues(running, currentStep, maxSteps)
     THEN /\ currentStep' = currentStep + 1
          /\ action' = NoAction
          /\ oracleReply' = NoAction
          /\ navApproved' = FALSE
          /\ riskApproved' = FALSE
          /\ changeResult' = NoChange
          /\ \E outcome \in {"snapshotThrows", "captcha", "proceed"} :
               CASE outcome = "snapshotThrows" ->
                      /\ pc' = "finally"
                      /\ UNCHANGED << dom, page >>
                 [] outcome = "captcha" ->
                      /\ dom' = DomSnapshots[page]
                      /\ page' = page
                      /\ pc' = "loop"
                 [] outcome = "proceed" ->
                      /\ dom' = DomSnapshots[page]
                      /\ page' = page
                      /\ pc' = IF isStuck(stuckCounter)
                               THEN "stuck" ELSE "plan"
     ELSE /\ pc' = "summary"
          /\ UNCHANGED << currentStep, stepVars, page >>
  /\ UNCHANGED << prog, actionLog, isConnectMode, mode, allowlist, browserVars, maxSteps,
                  history, stuckCounter, running, lastExec, userAnswer, oracleReplies,
                  finalSummaries, started, interrupted, queryVars >>

\* the prompt with the counter left as it is on continue
StuckPrompt_keepsCounter ==
  /\ prog = "cli" /\ pc = "stuck"
  /\ \E proceed \in BOOLEAN :
       IF proceed
       THEN stuckCounter' = stuckCounter /\ pc' = "plan"
       ELSE stuckCounter' = stuckCounter /\ pc' = "summary"
  /\ UNCHANGED << prog, actionLog, isConnectMode, mode, allowlist, browserVars, page,
                  currentStep, maxSteps, history, running, stepVars, lastExec, userAnswer,
                  oracleReplies, finalSummaries, started, interrupted,
                  queryVars >>

\* the continue/abort prompt
StuckPrompt ==
  /\ prog = "cli" /\ pc = "stuck"
  /\ \E proceed \in BOOLEAN :
       IF proceed
       THEN stuckCounter' = 0 /\ pc' = "plan"
       ELSE stuckCounter' = stuckCounter /\ pc' = "summary"
  /\ UNCHANGED << prog, actionLog, isConnectMode, mode, allowlist, browserVars, page,
                  currentStep, maxSteps, history, running, stepVars, lastExec, userAnswer,
                  oracleReplies, finalSummaries, started, interrupted,
                  queryVars >>

\* planNextAction and the branch on the planned action up to the next await
Plan ==
  /\ prog = "cli" /\ pc = "plan"
  /\ \E oracleOk \in BOOLEAN :
     \E reply \in (IF oracleOk THEN OracleActions ELSE {NoAction}) :
       /\ oracleOk => oracleReplies < MaxOracleReplies
       /\ oracleReplies' = IF oracleOk THEN oracleReplies + 1 ELSE oracleReplies
       /\ oracleReply' = reply
       /\ LET a == planNextAction(dom, history, oracleOk, reply)
          IN /\ action' = a
             /\ actionLog' = IF a.type = "stop"
                             THEN Append(actionLog, Entry(currentStep, a, "success", ""))
                             ELSE actionLog
             /\ pc' = CASE a.type = "stop" -> "summary"
                        [] a.type = "ask_user" -> "askUser"
                        [] OTHER ->
                             IF needsNavigationApproval(a, allowlist)
                             THEN "navGate"
                             ELSE IF isRiskyIntent(a) THEN "riskGate"
                             ELSE "execute"
  /\ UNCHANGED << prog, isConnectMode, mode, allowlist, browserVars, page,
                  agentState, dom, navApproved, riskApproved, changeResult,
                  lastExec, userAnswer,
                  finalSummaries, started, interrupted, queryVars >>

\* the ask_user branch
\* what the human types at an ask_user prompt
Answers == {"Yes", "no"}

\* cli.ts askUser: answer.toLowerCase().startsWith('y')
saysYes(answer) == startsWith(toLowerCase(answer), "y")

AskUser_alwaysContinues ==
  /\ prog = "cli" /\ pc = "askUser"
  /\ \E answer \in Answers :
       LET approved == saysYes(answer)
       IN /\ userAnswer' = answer
          /\ history' = Append(history,
               Entry(currentStep, action, IF approved THEN "success" ELSE "failed", ""))
          /\ actionLog' = Append(actionLog,
               Entry(currentStep, action, IF approved THEN "success" ELSE "failed", ""))
          /\ pc' = "loop"
  /\ UNCHANGED << prog, isConnectMode, mode, allowlist, browserVars, page,
                  currentStep, maxSteps, stuckCounter, running, stepVars,
                  lastExec, oracleReplies, finalSummaries, started,
                  interrupted, queryVars >>

AskUser ==
  /\ prog = "cli" /\ pc = "askUser"
  /\ \E answer \in Answers :
       LET approved == saysYes(answer)
       IN /\ userAnswer' = answer
          /\ history' = Append(history,
               Entry(currentStep, action, IF approved THEN "success" ELSE "failed", ""))
          /\ actionLog' = Append(actionLog,
               Entry(currentStep, action, IF approved THEN "success" ELSE "failed", ""))
          /\ pc' = IF approved THEN "loop" ELSE "summary"
  /\ UNCHANGED << prog, isConnectMode, mode, allowlist, browserVars, page,
                  currentStep, maxSteps, stuckCounter, running, stepVars,
                  lastExec, oracleReplies, finalSummaries, started,
                  interrupted, queryVars >>

\* the prompt with the approved host added to the session allowlist
NavigationGate_remembers ==
  /\ prog = "cli" /\ pc = "navGate"
  /\ \E approved \in BOOLEAN :
       IF approved
       THEN /\ navApproved' = TRUE
            /\ allowlist' = Append(allowlist, ParseURL(action.url).hostname)
            /\ pc' = IF isRiskyIntent(action) THEN "riskGate" ELSE "execute"
            /\ UNCHANGED history
       ELSE /\ history' = Append(history,
                 Entry(currentStep, action, "failed", "User blocked navigation"))
            /\ UNCHANGED allowlist
            /\ pc' = "loop"
            /\ UNCHANGED navApproved
  /\ UNCHANGED << prog, actionLog, isConnectMode, mode, browserVars, page,
                  currentStep, maxSteps, stuckCounter, running, dom, action,
                  oracleReply, riskApproved, changeResult, lastExec, userAnswer,
                  oracleReplies,
                  finalSummaries, started, interrupted, queryVars >>

\* the prompt with an entry pushed for the approval as well
NavigationGate_recordsApproval ==
  /\ prog = "cli" /\ pc = "navGate"
  /\ \E approved \in BOOLEAN :
       IF approved
       THEN /\ navApproved' = TRUE
            /\ pc' = IF isRiskyIntent(action) THEN "riskGate" ELSE "execute"
            /\ history' = Append(history, Entry(currentStep, action, "success", ""))
       ELSE /\ history' = Append(history,
                 Entry(currentStep, action, "failed", "User blocked navigation"))
            /\ pc' = "loop"
            /\ UNCHANGED navApproved
  /\ UNCHANGED << prog, actionLog, isConnectMode, mode, allowlist, browserVars, page,
                  currentStep, maxSteps, stuckCounter, running, dom, action,
                  oracleReply, riskApproved, changeResult, lastExec, userAnswer,
                  oracleReplies,
                  finalSummaries, started, interrupted, queryVars >>

\* the prompt for a navigation outside the allowlist
NavigationGate ==
  /\ prog = "cli" /\ pc = "navGate"
  /\ \E approved \in BOOLEAN :
       IF approved
       THEN /\ navApproved' = TRUE
            /\ pc' = IF isRiskyIntent(action) THEN "riskGate" ELSE "execute"
            /\ UNCHANGED history
       ELSE /\ history' = Append(history,
                 Entry(currentStep, action, "failed", "User blocked navigation"))
            /\ pc' = "loop"
            /\ UNCHANGED navApproved
  /\ UNCHANGED << prog, actionLog, isConnectMode, mode, allowlist, browserVars, page,
                  currentStep, maxSteps, stuckCounter, running, dom, action,
                  oracleReply, riskApproved, changeResult, lastExec, userAnswer,
                  oracleReplies,
                  finalSummaries, started, interrupted, queryVars >>

RiskGate_declineRuns ==
  /\ prog = "cli" /\ pc = "riskGate"
  /\ \E approved \in BOOLEAN :
       /\ riskApproved' = approved
       /\ pc' = "execute"
       /\ UNCHANGED history
  /\ UNCHANGED << prog, actionLog, isConnectMode, mode, allowlist, browserVars, page,
                  currentStep, maxSteps, stuckCounter, running, dom, action,
                  oracleReply, navApproved, changeResult, lastExec, userAnswer,
                  oracleReplies,
                  finalSummaries, started, interrupted, queryVars >>

\* the prompt for a risky action
RiskGate ==
  /\ prog = "cli" /\ pc = "riskGate"
  /\ \E approved \in BOOLEAN :
       IF approved
       THEN /\ riskApproved' = TRUE
            /\ pc' = "execute"
            /\ UNCHANGED history
       ELSE /\ history' = Append(history,
                 Entry(currentStep, action, "failed", "User blocked risky action"))
            /\ pc' = "loop"
            /\ UNCHANGED riskApproved
  /\ UNCHANGED << prog, actionLog, isConnectMode, mode, allowlist, browserVars, page,
                  currentStep, maxSteps, stuckCounter, running, dom, action,
                  oracleReply, navApproved, changeResult, lastExec, userAnswer,
                  oracleReplies,
                  finalSummaries, started, interrupted, queryVars >>

\* executeAction followed by the wait for a change whatever it returned
Execute_waitsAnyway ==
  /\ prog = "cli" /\ pc = "execute"
  /\ \E opOk \in BOOLEAN :
       LET result == executeAction(action, dom, opOk)
       IN /\ lastExec' = [step |-> currentStep, action |-> action,
                          navApproved |-> navApproved,
                          riskApproved |-> riskApproved,
                          targetKnown |-> findTarget(dom, action.targetId),
                          rewritten |-> FALSE]
          /\ history' = Append(history,
               Entry(currentStep, action,
                     IF result.success THEN "success" ELSE "failed", result.error))
          /\ actionLog' = Append(actionLog,
               Entry(currentStep, action,
                     IF result.success THEN "success" ELSE "failed", result.error))
          /\ pc' = "wait"
  /\ UNCHANGED << prog, isConnectMode, mode, allowlist, browserVars, page,
                  currentStep, maxSteps, stuckCounter, running, stepVars,
                  userAnswer, oracleReplies, finalSummaries, started,
                  interrupted, queryVars >>

\* executeAction and the history entry that records its result
Execute ==
  /\ prog = "cli" /\ pc = "execute"
  /\ \E opOk \in BOOLEAN :
       LET result == executeAction(action, dom, opOk)
       IN /\ lastExec' = [step |-> currentStep, action |-> action,
                          navApproved |-> navApproved,
                          riskApproved |-> riskApproved,
                          targetKnown |-> findTarget(dom, action.targetId),
                          rewritten |-> FALSE]
          /\ history' = Append(history,
               Entry(currentStep, action,
                     IF result.success THEN "success" ELSE "failed", result.error))
          /\ actionLog' = Append(actionLog,
               Entry(currentStep, action,
                     IF result.success THEN "success" ELSE "failed", result.error))
          /\ pc' = IF result.success THEN "wait" ELSE "loop"
  /\ UNCHANGED << prog, isConnectMode, mode, allowlist, browserVars, page,
                  currentStep, maxSteps, stuckCounter, running, stepVars,
                  userAnswer, oracleReplies, finalSummaries, started,
                  interrupted, queryVars >>

\* what the polls of a waitForChange call in the loop can meet, for the
\* page prev shown when the step's snapshot was taken: no poll or one poll,
\* on that page, on another page or rejected, with the perception unchanged,
\* absent or changed; the snapshot after the loop finds the page as it was
\* or rejects
LoopVisions == { NoVision, Vision({"Sign", "up", "Email"}), Vision({"Welcome"}) }

LoopPrevVision == Vision({"Sign", "up", "Email"})

LoopPolls(prev) ==
  { << >> } \cup
  { << [page |-> pg, vision |-> v] >> :
      pg \in LandingPages \cup {prev, "throws"}, v \in LoopVisions }

\* the results waitForChange can return in the loop for each page, once the
\* polls, the quiet period and the snapshot after the loop are chosen
LoopResults ==
  [p \in Pages |->
     { waitForChange(DomSnapshots[p], LoopPrevVision, polls, quietFrom, finalPage) :
         polls \in LoopPolls(p), quietFrom \in 1..2, finalPage \in {p, "throws"} }]

\* the branch on the change result that updates state.stuckCounter
updateStuckCounter_visionResets(r, counter) ==
  IF r.domChanged \/ r.visionChanged THEN 0
  ELSE IF r.timeout THEN counter + 1
  ELSE counter

updateStuckCounter(r, counter) ==
  IF r.domChanged THEN 0
  ELSE IF r.visionChanged THEN counter
  ELSE IF r.timeout THEN counter + 1
  ELSE counter

\* waitForChange and the update of the stuck counter.  The effect of the
\* executed action on the page shows here: the page may have changed by the
\* first poll or during the polling, or not at all.
WaitForChange ==
  /\ prog = "cli" /\ pc = "wait"
  /\ \E r \in LoopResults[dom.page] :
       /\ changeResult' = r
       /\ IF r.threw
          THEN /\ page' = page
               /\ stuckCounter' = stuckCounter
               /\ pc' = "finally"
          ELSE /\ page' = r.newPage
               /\ stuckCounter' = updateStuckCounter(r, stuckCounter)
               /\ pc' = "loop"
  /\ UNCHANGED << prog, actionLog, isConnectMode, mode, allowlist, browserVars,
                  currentStep, maxSteps, history, running, dom, action,
                  oracleReply, navApproved, riskApproved, lastExec, userAnswer,
                  oracleReplies, finalSummaries, started, interrupted,
                  queryVars >>

\* logger.writeFinalSummary at the end of the try block
Summary(hist) ==
  [totalSteps |-> Len(hist),
   success |-> \E i \in 1..Len(hist) : hist[i].action.done]

WriteFinalSummary ==
  /\ prog = "cli" /\ pc = "summary"
  /\ finalSummaries' = Append(finalSummaries, Summary(history))
  /\ pc' = "finally"
  /\ UNCHANGED << prog, actionLog, isConnectMode, mode, allowlist, browserVars, page,
                  agentState, stepVars, lastExec, userAnswer, oracleReplies, started,
                  interrupted, queryVars >>

\* the finally block: close the browser the run owns; browser!.close() on
\* the unassigned variable throws and runAgent rejects
Finally ==
  /\ prog = "cli" /\ pc = "finally"
  /\ IF ownsBrowser
     THEN IF browser = "set"
          THEN closeCalls' = closeCalls + 1 /\ pc' = "done"
          ELSE closeCalls' = closeCalls /\ pc' = "rejected"
     ELSE closeCalls' = closeCalls /\ pc' = "done"
  /\ UNCHANGED << prog, actionLog, isConnectMode, mode, allowlist, ownsBrowser, browser,
                  launched, page, agentState, stepVars, lastExec, userAnswer,
                  oracleReplies, finalSummaries, started, interrupted,
                  queryVars >>

(***************************************************************************)
(* agent/orchestrator.ts: Orchestrator                                      *)
(***************************************************************************)
AgentEntry(step, act, result, approved) ==
  [step |-> step, action |-> act, result |-> result, approved |-> approved]

\* Orchestrator.run up to the loop: running is set, then the wait for the
\* first vision snapshot; without one the run goes straight to cleanup
OrchRun ==
  /\ prog = "orch" /\ pc = "start"
  /\ running' = TRUE
  /\ started' = TRUE
  /\ \E visionArrived \in BOOLEAN :
       pc' = IF visionArrived THEN "loop" ELSE "cleanup"
  /\ UNCHANGED << prog, actionLog, isConnectMode, mode, allowlist, browserVars, page,
                  currentStep, maxSteps, history, stuckCounter, stepVars,
                  lastExec, userAnswer, oracleReplies, finalSummaries, interrupted,
                  queryVars >>

\* one pass of the loop up to its first prompt: the loop test, planning,
\* checkActionSafety and the branch on the final action
OrchStep ==
  /\ prog = "orch" /\ pc = "loop"
  /\ IF loopContinues(running, currentStep, maxSteps)
     THEN /\ currentStep' = currentStep + 1
          /\ navApproved' = FALSE
          /\ riskApproved' = FALSE
          /\ \E oracleOk \in BOOLEAN :
             \E reply \in (IF oracleOk THEN AgentOracleActions ELSE {NoAction}) :
               /\ oracleOk => oracleReplies < MaxOracleReplies
               /\ oracleReplies' = IF oracleOk THEN oracleReplies + 1
                                   ELSE oracleReplies
               /\ oracleReply' = reply
               /\ LET planned == agentPlanNextAction(oracleOk, reply)
                      safety == checkActionSafety(planned, mode)
                      finalAction == safety.finalAction
                  IN /\ action' = finalAction
                     /\ IF finalAction.type = "stop"
                        THEN /\ history' = Append(history,
                                  AgentEntry(currentStep + 1, finalAction,
                                             "success", TRUE))
                             /\ actionLog' = Append(actionLog,
                                  AgentEntry(currentStep + 1, finalAction,
                                             "success", TRUE))
                             /\ pc' = "cleanup"
                        ELSE /\ history' = history
                             /\ actionLog' = actionLog
                             /\ pc' = IF finalAction.type = "ask_user"
                                      THEN "askUser"
                                      ELSE IF safety.requiresApproval
                                      THEN "approval" ELSE "execute"
     ELSE /\ pc' = "cleanup"
          /\ UNCHANGED << currentStep, history, actionLog, action, oracleReply,
                          navApproved, riskApproved, oracleReplies >>
  /\ UNCHANGED << prog, isConnectMode, mode, allowlist, browserVars, page,
                  maxSteps, stuckCounter, running, dom, changeResult,
                  lastExec, userAnswer,
                  finalSummaries, started, interrupted, queryVars >>

\* the ask_user branch: the answer is read and the step recorded
OrchAskUser ==
  /\ prog = "orch" /\ pc = "askUser"
  /\ userAnswer' \in Answers
  /\ history' = Append(history, AgentEntry(currentStep, action, "success", TRUE))
  /\ actionLog' = Append(actionLog, AgentEntry(currentStep, action, "success", TRUE))
  /\ pc' = "loop"
  /\ UNCHANGED << prog, isConnectMode, mode, allowlist, browserVars, page,
                  currentStep, maxSteps, stuckCounter, running, stepVars,
                  lastExec, oracleReplies, finalSummaries, started,
                  interrupted, queryVars >>

\* askApproval and the rejected branch
OrchApproval ==
  /\ prog = "orch" /\ pc = "approval"
  /\ \E approved \in BOOLEAN :
       IF approved
       THEN /\ riskApproved' = TRUE
            /\ pc' = "execute"
            /\ UNCHANGED << history, actionLog >>
       ELSE /\ history' = Append(history,
                 AgentEntry(currentStep, action, "skipped", FALSE))
            /\ actionLog' = Append(actionLog,
                 AgentEntry(currentStep, action, "skipped", FALSE))
            /\ pc' = "loop"
            /\ UNCHANGED riskApproved
  /\ UNCHANGED << prog, isConnectMode, mode, allowlist, browserVars, page,
                  currentStep, maxSteps, stuckCounter, running, dom, action,
                  oracleReply, navApproved, changeResult, lastExec, userAnswer,
                  oracleReplies,
                  finalSummaries, started, interrupted, queryVars >>

\* executeAction(finalAction) and recordStep
OrchExecute ==
  /\ prog = "orch" /\ pc = "execute"
  /\ LET result == agentExecuteAction(action)
     IN /\ lastExec' = [step |-> currentStep, action |-> action,
                        navApproved |-> navApproved,
                        riskApproved |-> riskApproved,
                        targetKnown |-> TRUE,
                        rewritten |-> (oracleReply # NoAction
                                       /\ oracleReply.type # action.type)]
        /\ history' = Append(history,
             AgentEntry(currentStep, action,
                        IF result.success THEN "success" ELSE "failed", TRUE))
        /\ actionLog' = Append(actionLog,
             AgentEntry(currentStep, action,
                        IF result.success THEN "success" ELSE "failed", TRUE))
  /\ pc' = "loop"
  /\ UNCHANGED << prog, isConnectMode, mode, allowlist, browserVars, page,
                  currentStep, maxSteps, stuckCounter, running, stepVars,
                  userAnswer, oracleReplies, finalSummaries, started,
                  interrupted, queryVars >>

\* logging/runLogger.ts writeFinalSummary: success is the done flag of the
\* last recorded action
AgentSummary(hist) ==
  [totalSteps |-> Len(hist),
   success |-> IF hist = << >> THEN FALSE ELSE hist[Len(hist)].action.done]

\* Orchestrator.cleanup
OrchCleanup ==
  /\ prog = "orch" /\ pc = "cleanup"
  /\ running' = FALSE
  /\ finalSummaries' = Append(finalSummaries, AgentSummary(history))
  /\ pc' = "done"
  /\ UNCHANGED << prog, actionLog, isConnectMode, mode, allowlist, browserVars, page,
                  currentStep, maxSteps, history, stuckCounter, stepVars,
                  lastExec, userAnswer, oracleReplies, started, interrupted, queryVars >>

\* cli.ts main: the SIGINT handler, orchestrator.stop() then process.exit(0)
SigInt ==
  /\ prog = "orch" /\ pc \notin {"done", "exited"}
  /\ interrupted' = TRUE
  /\ running' = FALSE
  /\ pc' = "exited"
  /\ UNCHANGED << prog, actionLog, isConnectMode, mode, allowlist, browserVars, page,
                  currentStep, maxSteps, history, stuckCounter, stepVars,
                  lastExec, userAnswer, oracleReplies, finalSummaries, started, queryVars >>

Next ==
  \/ ConnectToExistingBrowser
  \/ LaunchNewBrowser
  \/ CheckStartDomain
  \/ StepBegin
  \/ StuckPrompt
  \/ Plan
  \/ AskUser
  \/ NavigationGate
  \/ RiskGate
  \/ Execute
  \/ WaitForChange
  \/ WriteFinalSummary
  \/ Finally
  \/ OrchRun
  \/ OrchStep
  \/ OrchAskUser
  \/ OrchApproval
  \/ OrchExecute
  \/ OrchCleanup
  \/ SigInt

Spec == Init /\ [][Next]_vars

(***************************************************************************)
(* isAllowedDomain applied on its own to a url and an allowlist             *)
(***************************************************************************)
UrlInputs ==
  { "http://example.com/", "https://app.example.com/login",
    "https://notexample.com/", "http://EXAMPLE.com:8080/x",
    "https://example.com.evil.test/", "http://localhost:3000/form",
    "http://127.0.0.1/", "about:blank", "not a url", "" }

QueryAllowlists ==
  { << "localhost", "127.0.0.1" >>, << "example.com" >>, << "Example.com" >>,
    << "app.example.com" >>, << "evil.test", "com" >>, << >> }

InitQuery ==
  /\ InitRun
  /\ prog = "query"
  /\ isConnectMode = FALSE
  /\ mode = "execute"
  /\ allowlist = << >>
  /\ maxSteps = 0
  /\ qUrl \in UrlInputs
  /\ qAllowlist \in QueryAllowlists
  /\ qCalled = FALSE
  /\ qResult = FALSE
  /\ IdleCalls

CallIsAllowedDomain ==
  /\ prog = "query" /\ ~qCalled
  /\ qCalled' = TRUE
  /\ qResult' = isAllowedDomain(qUrl, qAllowlist)
  /\ UNCHANGED << prog, actionLog, pc, isConnectMode, mode, allowlist, browserVars, page,
                  agentState, stepVars, lastExec, userAnswer, oracleReplies,
                  finalSummaries, started, interrupted, qUrl, qAllowlist,
                  wArgs, wResult, hArgs, hResult, sArgs, sResult,
                  eArgs, eResult, lResult, streamVars >>

NextQuery == CallIsAllowedDomain

SpecQuery == InitQuery /\ [][NextQuery]_vars

(***************************************************************************)
(* waitForChange applied on its own                                         *)
(***************************************************************************)
\* ten snippets, and seven of them: a similarity of exactly 0.7
TenSnippets == {"a", "b", "c", "d", "e", "f", "g", "h", "i", "j"}

SevenSnippets == {"a", "b", "c", "d", "e", "f", "g"}

ChangeVisions ==
  { NoVision, Vision({}), Vision({"a", "b", "c"}), Vision({"a", "b", "c", "d"}),
    Vision(SevenSnippets) }

PollInputs ==
  [page : LandingPages \cup {"blank", "throws"}, vision : ChangeVisions]

PollRuns ==
  UNION { [1..n -> PollInputs] : n \in 0..MaxPolls }

InitChange ==
  /\ InitRun
  /\ prog = "change"
  /\ isConnectMode = FALSE
  /\ mode = "execute"
  /\ allowlist = << >>
  /\ maxSteps = 0
  /\ qUrl = ""
  /\ qAllowlist = << >>
  /\ qCalled = FALSE
  /\ qResult = FALSE
  /\ wArgs \in [prevPage : LandingPages \cup {"blank"},
                prevVision : {NoVision, Vision({"a", "b", "c"}),
                              Vision(TenSnippets)},
                polls : PollRuns,
                quietFrom : 1..(MaxPolls + 1),
                finalPage : LandingPages \cup {"blank", "throws"}]
  /\ wResult = NoChange
  /\ hArgs = NoHashArgs
  /\ hResult = NoHashResult
  /\ sArgs = NoSnapshotArgs
  /\ sResult = << >>
  /\ eArgs = NoExecArgs
  /\ eResult = << >>
  /\ lResult = << >>
  /\ IdleStreamer

CallWaitForChange ==
  /\ prog = "change" /\ ~wResult.called
  /\ wResult' = waitForChange(DomSnapshots[wArgs.prevPage],
                              wArgs.prevVision, wArgs.polls, wArgs.quietFrom,
                              wArgs.finalPage)
  /\ UNCHANGED << prog, actionLog, pc, isConnectMode, mode, allowlist, browserVars, page,
                  agentState, stepVars, lastExec, userAnswer, oracleReplies,
                  finalSummaries, started, interrupted, qUrl, qAllowlist,
                  qCalled, qResult, wArgs, hArgs, hResult, sArgs, sResult,
                  eArgs, eResult, lResult, streamVars >>

NextChange == CallWaitForChange

SpecChange == InitChange /\ [][NextChange]_vars

-----------------------------------------------------------------------------
\* The page hash as a function of the page state: the url, the title and the
\* extracted targets of two page states, and the canonical string and hash
\* captureDomSnapshot builds for each.

\* page.url(): "|" is not percent-encoded in the query of a URL
HashUrls ==
  {"http://localhost:3000/", "http://localhost:3000/?a",
   "http://localhost:3000/?a|b"}

\* page.title()
HashTitles == {"", "c", "b|c"}

HashTargetLists ==
  {<< >>,
   << Target("input:Email:0", "input", "Email") >>,
   << Target("input:Email:0", "input", "Email"),
      Target("button:Submit:1", "button", "Submit") >>,
   << Target("button:Submit:0", "button", "Submit"),
      Target("input:Email:1", "input", "Email") >>}

HashPageStates ==
  [url : HashUrls, title : HashTitles, targets : HashTargetLists]

InitHash ==
  /\ InitRun
  /\ prog = "hash"
  /\ isConnectMode = FALSE
  /\ mode = "execute"
  /\ allowlist = << >>
  /\ maxSteps = 0
  /\ qUrl = ""
  /\ qAllowlist = << >>
  /\ qCalled = FALSE
  /\ qResult = FALSE
  /\ wArgs = NoChangeArgs
  /\ wResult = NoChange
  /\ hArgs \in HashPageStates \X HashPageStates
  /\ hResult = NoHashResult
  /\ sArgs = NoSnapshotArgs
  /\ sResult = << >>
  /\ eArgs = NoExecArgs
  /\ eResult = << >>
  /\ lResult = << >>
  /\ IdleStreamer

\* the last two statements of captureDomSnapshot, for each page state
CallPageHash ==
  /\ prog = "hash" /\ ~hResult.called
  /\ LET str(i) == canonicalString(hArgs[i].url, hArgs[i].title,
                                   hArgs[i].targets)
     IN hResult' = [called |-> TRUE,
                    strings |-> << str(1), str(2) >>,
                    hashes |-> << hashString(str(1)), hashString(str(2)) >>]
  /\ UNCHANGED << prog, actionLog, pc, isConnectMode, mode, allowlist, browserVars, page,
                  agentState, stepVars, lastExec, userAnswer, oracleReplies,
                  finalSummaries, started, interrupted, qUrl, qAllowlist,
                  qCalled, qResult, wArgs, wResult, hArgs, sArgs, sResult,
                  eArgs, eResult, lResult, streamVars >>

NextHash == CallPageHash

SpecHash == InitHash /\ [][NextHash]_vars

-----------------------------------------------------------------------------
\* captureDomSnapshot as a function of the page: a page state of url, title
\* and elements in document order, and the snapshots successive calls
\* return while the page stays as it is.

\* the elements pages are made of; n is the element's position in the
\* document, which its text shows
ElementKinds == {"button", "link", "input", "checkbox", "dialogClose",
                 "textarea", "notRendered", "fixed", "buttonAsLink",
                 "anchorAsCheckbox", "divAsCheckbox", "withId", "classed",
                 "bare"}

ElementOf(kind, n) ==
  CASE kind = "button" ->
         Element("BUTTON", "", "", "", "", "", "", " Save " \o ToString(n),
                 TRUE, FALSE)
    [] kind = "link" ->
         Element("A", "", "", "", "", "", "", "Item " \o ToString(n),
                 TRUE, FALSE)
    [] kind = "input" ->
         Element("INPUT", "", "", "email" \o ToString(n), "", "email", "", "",
                 TRUE, FALSE)
    [] kind = "checkbox" ->
         Element("INPUT", "", "", "", "agree" \o ToString(n), "checkbox", "", "",
                 TRUE, FALSE)
    [] kind = "dialogClose" ->
         Element("DIV", "button", "Close dialog! " \o ToString(n), "", "", "",
                 "", "x", TRUE, FALSE)
    [] kind = "textarea" ->
         Element("TEXTAREA", "", "", "", "", "", ToString(n)
                   \o " Tell us what you think about the new checkout page, in your own words",
                 "", TRUE, FALSE)
    [] kind = "notRendered" ->
         Element("BUTTON", "", "", "", "", "", "", "Hidden " \o ToString(n),
                 FALSE, FALSE)
    [] kind = "fixed" ->
         Element("BUTTON", "", "", "", "", "", "", "Chat " \o ToString(n),
                 TRUE, TRUE)
    [] kind = "buttonAsLink" ->
         Element("BUTTON", "link", "", "", "", "", "", "Docs " \o ToString(n),
                 TRUE, FALSE)
    [] kind = "anchorAsCheckbox" ->
         Element("A", "checkbox", "", "", "", "", "", "Remember " \o ToString(n),
                 TRUE, FALSE)
    [] kind = "divAsCheckbox" ->
         Element("DIV", "checkbox", "", "", "", "", "", "Terms " \o ToString(n),
                 TRUE, FALSE)
    [] kind = "withId" ->
         Element("SELECT", "", "", "", "country" \o ToString(n), "", "", "",
                 TRUE, FALSE)
    [] kind = "classed" ->
         withClasses(Element("DIV", "", "", "", "", "", "", "", TRUE, FALSE),
                     << "card", "m" \o ToString(n), "clickable" >>)
    [] kind = "bare" ->
         Element("DIV", "", "", "", "", "", "", "", TRUE, FALSE)

\* the kinds that repeat down a page
DomPatterns ==
  { << "button" >>,
    << "link", "input", "checkbox", "notRendered" >>,
    << "dialogClose", "textarea", "button", "link", "notRendered" >>,
    << "button", "fixed", "link", "input", "checkbox", "link" >>,
    << "divAsCheckbox", "buttonAsLink", "anchorAsCheckbox", "dialogClose" >> }

DomSizes ==
  {0, 1, 3, MAX_TARGETS - 1, MAX_TARGETS, MAX_TARGETS + 1, MaxElements}

DomOf(pattern, size) ==
  [n \in 1..size |-> ElementOf(pattern[((n - 1) % Len(pattern)) + 1], n)]

SnapshotInputs ==
  { [url |-> u, title |-> t, elements |-> DomOf(pattern, size)] :
      u \in {"http://localhost:3000/form", "https://shop.example.org/cart"},
      t \in {"", "Sign up"},
      pattern \in DomPatterns, size \in DomSizes }

InitSnapshot ==
  /\ InitRun
  /\ prog = "snapshot"
  /\ isConnectMode = FALSE
  /\ mode = "execute"
  /\ allowlist = << >>
  /\ maxSteps = 0
  /\ qUrl = ""
  /\ qAllowlist = << >>
  /\ qCalled = FALSE
  /\ qResult = FALSE
  /\ wArgs = NoChangeArgs
  /\ wResult = NoChange
  /\ hArgs = NoHashArgs
  /\ hResult = NoHashResult
  /\ sArgs \in SnapshotInputs
  /\ sResult = << >>
  /\ eArgs = NoExecArgs
  /\ eResult = << >>
  /\ lResult = << >>
  /\ IdleStreamer

\* one more call of captureDomSnapshot on the page as it is; the extraction
\* script is evaluated anew, so its index starts at 0
CallCaptureDomSnapshot_indexKept ==
  /\ prog = "snapshot" /\ Len(sResult) < MaxCalls
  /\ sResult' = Append(sResult,
                       snapshotOf(sArgs, IF sResult = << >> THEN 0
                                         ELSE Len(sResult[Len(sResult)].targets)))
  /\ UNCHANGED << prog, actionLog, pc, isConnectMode, mode, allowlist, browserVars, page,
                  agentState, stepVars, lastExec, userAnswer, oracleReplies,
                  finalSummaries, started, interrupted, qUrl, qAllowlist,
                  qCalled, qResult, wArgs, wResult, hArgs, hResult, sArgs,
                  eArgs, eResult, lResult, streamVars >>

CallCaptureDomSnapshot ==
  /\ prog = "snapshot" /\ Len(sResult) < MaxCalls
  /\ sResult' = Append(sResult, snapshotOf(sArgs, 0))
  /\ UNCHANGED << prog, actionLog, pc, isConnectMode, mode, allowlist, browserVars, page,
                  agentState, stepVars, lastExec, userAnswer, oracleReplies,
                  finalSummaries, started, interrupted, qUrl, qAllowlist,
                  qCalled, qResult, wArgs, wResult, hArgs, hResult, sArgs,
                  eArgs, eResult, lResult, streamVars >>

NextSnapshot == CallCaptureDomSnapshot

SpecSnapshot == InitSnapshot /\ [][NextSnapshot]_vars

(***************************************************************************)
(* executeAction applied on its own, to actions of every kind, known or     *)
(* not, with their fields present or missing, on a page that holds the      *)
(* target or does not, with a browser operation that goes through or throws *)
(***************************************************************************)
ExecKinds == {"click", "type_text", "press_key", "scroll", "wait",
              "navigate", "ask_user", "stop", "propose", "hover"}

ExecTargetIds == {"", "button:Submit:3", "button:Gone:9"}

ExecActions ==
  { Act(type, targetId, text, key, url, "low", "", "", FALSE) :
      type \in ExecKinds, targetId \in ExecTargetIds, text \in {"", "hi"},
      key \in {"", "Enter"}, url \in {"", "https://example.com/next"} }

ExecInputs ==
  [action : ExecActions, dom : {DomSnapshots["form"], DomSnapshots["blank"]},
   opOk : BOOLEAN]

InitExec ==
  /\ InitRun
  /\ prog = "exec"
  /\ isConnectMode = FALSE
  /\ mode = "execute"
  /\ allowlist = << >>
  /\ maxSteps = 0
  /\ qUrl = ""
  /\ qAllowlist = << >>
  /\ qCalled = FALSE
  /\ qResult = FALSE
  /\ wArgs = NoChangeArgs
  /\ wResult = NoChange
  /\ hArgs = NoHashArgs
  /\ hResult = NoHashResult
  /\ sArgs = NoSnapshotArgs
  /\ sResult = << >>
  /\ eArgs \in ExecInputs
  /\ eResult = << >>
  /\ lResult = << >>
  /\ IdleStreamer

\* one call of executeAction: what it returns and the browser operations it
\* started
CallExecuteAction ==
  /\ prog = "exec" /\ Len(eResult) < MaxCalls
  /\ eResult' = Append(eResult,
                       [returned |-> executeAction(eArgs.action, eArgs.dom,
                                                   eArgs.opOk),
                        browserOps |-> browserOps(eArgs.action, eArgs.dom)])
  /\ UNCHANGED << prog, actionLog, pc, isConnectMode, mode, allowlist, browserVars, page,
                  agentState, stepVars, lastExec, userAnswer, oracleReplies,
                  finalSummaries, started, interrupted, qUrl, qAllowlist,
                  qCalled, qResult, wArgs, wResult, hArgs, hResult, sArgs,
                  sResult, eArgs, lResult, streamVars >>

NextExec == CallExecuteAction

SpecExec == InitExec /\ [][NextExec]_vars

(***************************************************************************)
(* getLocator applied to every target of the snapshot of a page, as          *)
(* executeAction applies it to the target an action names                    *)
(***************************************************************************)
LocatorPatterns ==
  DomPatterns \cup { << "withId", "classed", "input", "bare", "dialogClose" >> }

LocatorSizes == {1, 2, 3, 4, 5}

LocatorInputs ==
  { [url |-> u, title |-> t, elements |-> DomOf(pattern, size)] :
      u \in {"http://localhost:3000/form", "https://shop.example.org/cart"},
      t \in {"", "Sign up"},
      pattern \in LocatorPatterns, size \in LocatorSizes }

InitLocator ==
  /\ InitRun
  /\ prog = "locator"
  /\ isConnectMode = FALSE
  /\ mode = "execute"
  /\ allowlist = << >>
  /\ maxSteps = 0
  /\ qUrl = ""
  /\ qAllowlist = << >>
  /\ qCalled = FALSE
  /\ qResult = FALSE
  /\ wArgs = NoChangeArgs
  /\ wResult = NoChange
  /\ hArgs = NoHashArgs
  /\ hResult = NoHashResult
  /\ sArgs \in LocatorInputs
  /\ sResult = << >>
  /\ eArgs = NoExecArgs
  /\ eResult = << >>
  /\ lResult = << >>
  /\ IdleStreamer

CallGetLocator ==
  /\ prog = "locator" /\ lResult = << >>
  /\ LET targets == snapshotOf(sArgs, 0).targets
     IN lResult' = [i \in 1..Len(targets) |->
                      [target |-> targets[i], locator |-> getLocator(targets[i])]]
  /\ UNCHANGED << prog, actionLog, pc, isConnectMode, mode, allowlist, browserVars, page,
                  agentState, stepVars, lastExec, userAnswer, oracleReplies,
                  finalSummaries, started, interrupted, qUrl, qAllowlist,
                  qCalled, qResult, wArgs, wResult, hArgs, hResult, sArgs,
                  sResult, eArgs, eResult, streamVars >>

NextLocator == CallGetLocator

SpecLocator == InitLocator /\ [][NextLocator]_vars

(***************************************************************************)
(* ScreenStreamer: the calls made on the exported screenStreamer by the     *)
(* agent (setPage, start, stop) and by the WebSocket server (addClient,     *)
(* removeClient, isRunning), and the interval callback the runtime fires    *)
(***************************************************************************)
InitStreamer ==
  /\ InitRun
  /\ prog = "streamer"
  /\ isConnectMode = FALSE
  /\ mode = "execute"
  /\ allowlist = << >>
  /\ maxSteps = 0
  /\ qUrl = ""
  /\ qAllowlist = << >>
  /\ qCalled = FALSE
  /\ qResult = FALSE
  /\ wArgs = NoChangeArgs
  /\ wResult = NoChange
  /\ hArgs = NoHashArgs
  /\ hResult = NoHashResult
  /\ sArgs = NoSnapshotArgs
  /\ sResult = << >>
  /\ eArgs = NoExecArgs
  /\ eResult = << >>
  /\ lResult = << >>
  /\ IdleStreamer

UnchangedByStreamer == UNCHANGED << prog, actionLog, pc, isConnectMode, mode, allowlist, browserVars, page, agentState, stepVars, lastExec, userAnswer, oracleReplies, finalSummaries, started, interrupted, qUrl, qAllowlist, qCalled, qResult, wArgs, wResult, hArgs, hResult, sArgs, sResult, eArgs, eResult, lResult >>

isRunning == streamer.running

setPage ==
  /\ prog = "streamer"
  /\ streamer' = [streamer EXCEPT !.page = TRUE]
  /\ wire' = [wire EXCEPT !.op = "setPage", !.effect = "none"]
  /\ UNCHANGED << timers, sockets >>
  /\ UnchangedByStreamer

addClient(ws) ==
  /\ prog = "streamer"
  /\ streamer' = [streamer EXCEPT !.clients = @ \cup {ws}]
  /\ wire' = [wire EXCEPT !.op = "addClient", !.effect = "none"]
  /\ UNCHANGED << timers, sockets >>
  /\ UnchangedByStreamer

removeClient(ws) ==
  /\ prog = "streamer"
  /\ streamer' = [streamer EXCEPT !.clients = @ \ {ws}]
  /\ wire' = [wire EXCEPT !.op = "removeClient", !.effect = "none"]
  /\ UNCHANGED << timers, sockets >>
  /\ UnchangedByStreamer

\* a WebSocket leaves the OPEN state
SocketCloses(ws) ==
  /\ prog = "streamer"
  /\ sockets[ws] = "OPEN"
  /\ sockets' = [sockets EXCEPT ![ws] = "CLOSED"]
  /\ wire' = [wire EXCEPT !.op = "close", !.effect = "none"]
  /\ UNCHANGED << streamer, timers >>
  /\ UnchangedByStreamer

\* start() without its first line, if (this.running) return
start_unguarded ==
  /\ prog = "streamer"
  /\ timers.created < MaxCalls
  /\ LET id == timers.created + 1
     IN /\ streamer' = [streamer EXCEPT !.running = TRUE, !.intervalId = id]
        /\ timers' = [timers EXCEPT !.created = id, !.active = @ \cup {id}]
  /\ wire' = [wire EXCEPT !.op = "start", !.effect = "timer"]
  /\ UNCHANGED sockets
  /\ UnchangedByStreamer

start ==
  /\ prog = "streamer"
  /\ IF streamer.running
       THEN /\ wire' = [wire EXCEPT !.op = "start", !.effect = "none"]
            /\ UNCHANGED << streamer, timers >>
       ELSE /\ timers.created < MaxCalls
            /\ LET id == timers.created + 1
               IN /\ streamer' = [streamer EXCEPT !.running = TRUE,
                                                   !.intervalId = id]
                  /\ timers' = [timers EXCEPT !.created = id,
                                               !.active = @ \cup {id}]
            /\ wire' = [wire EXCEPT !.op = "start", !.effect = "timer"]
  /\ UNCHANGED sockets
  /\ UnchangedByStreamer

stop ==
  /\ prog = "streamer"
  /\ IF streamer.intervalId # 0
       THEN /\ timers' = [timers EXCEPT !.active = @ \ {streamer.intervalId}]
            /\ streamer' = [streamer EXCEPT !.intervalId = 0, !.running = FALSE]
            /\ wire' = [wire EXCEPT !.op = "stop", !.effect = "cleared"]
       ELSE /\ streamer' = [streamer EXCEPT !.running = FALSE]
            /\ wire' = [wire EXCEPT !.op = "stop", !.effect = "none"]
            /\ UNCHANGED timers
  /\ UNCHANGED sockets
  /\ UnchangedByStreamer

\* the interval callback of an active timer up to its await: it returns at once with no page or
\* no client, and otherwise asks the page for a screenshot
Tick ==
  /\ prog = "streamer"
  /\ \E id \in timers.active : TRUE
  /\ IF ~streamer.page \/ Cardinality(streamer.clients) = 0
       THEN /\ wire' = [wire EXCEPT !.op = "tick", !.effect = "skipped"]
            /\ UNCHANGED timers
       ELSE /\ timers.capturing < MaxCalls
            /\ timers' = [timers EXCEPT !.capturing = @ + 1]
            /\ wire' = [wire EXCEPT !.op = "tick", !.effect = "capturing"]
  /\ UNCHANGED << streamer, sockets >>
  /\ UnchangedByStreamer

\* the callback after its await: the screenshot came, and the frame goes to
\* every client whose socket is OPEN, or it threw, which the catch swallows
Capture(ok) ==
  /\ prog = "streamer"
  /\ timers.capturing > 0
  /\ timers' = [timers EXCEPT !.capturing = @ - 1]
  /\ IF ok
       THEN LET receivers == { ws \in streamer.clients : sockets[ws] = "OPEN" }
            IN /\ wire.frames + Cardinality(receivers) <= MaxFrames
               /\ wire' = [frames |-> wire.frames + Cardinality(receivers),
                           op |-> "capture", effect |-> "sent"]
       ELSE wire' = [wire EXCEPT !.op = "capture", !.effect = "failed"]
  /\ UNCHANGED << streamer, sockets >>
  /\ UnchangedByStreamer

NextStreamer ==
  \/ setPage
  \/ \E ws \in Clients : addClient(ws)
  \/ \E ws \in Clients : removeClient(ws)
  \/ \E ws \in Clients : SocketCloses(ws)
  \/ start
  \/ stop
  \/ Tick
  \/ \E ok \in BOOLEAN : Capture(ok)

SpecStreamer == InitStreamer /\ [][NextStreamer]_vars

(***************************************************************************)
(* Properties                                                               *)
(***************************************************************************)
Terminated == pc \in {"done", "rejected"}

Executed == lastExec.step > 0

\* C1: in both loops the step counter never exceeds maxSteps, it moves only
\* by one and only while running holds and the budget is not used up, and
\* from the loop test with the budget used up or running false the run can
\* only leave the loop.
C1_StepBudget ==
  /\ [](currentStep <= maxSteps)
  /\ [][/\ currentStep' # currentStep =>
             (running /\ currentStep < maxSteps /\ currentStep' = currentStep + 1)
        /\ (pc = "loop" /\ ~(running /\ currentStep < maxSteps)) =>
             pc' \in {"summary", "cleanup", "exited"}]_vars

C1_Witness ==
  /\ maxSteps = MaxSteps
  /\ currentStep = maxSteps
  /\ pc \in {"summary", "cleanup"}

\* C2: every run that has started and has ended has written exactly one
\* final summary.
C2_OneSummaryPerRun ==
  (started /\ Terminated) => Len(finalSummaries) = 1

\* C3: once a started run has ended, the running flag is false.
C3_NotRunningAfterEnd ==
  (started /\ Terminated) => ~running

\* C4: a run that was interrupted by SIGINT has written its final summary by
\* the time the process has ended.
C4_SummaryAfterInterrupt ==
  (started /\ interrupted /\ pc = "exited") => Len(finalSummaries) = 1

\* C5: when runAgent has ended, a browser the run launched has been closed
\* and a browser the run attached to has not.
C5_CloseIffLaunched ==
  (prog = "cli" /\ Terminated) =>
     /\ launched => closeCalls >= 1
     /\ isConnectMode => closeCalls = 0

\* the action kinds whose targetId the claim C6 is checked for once
\* navigate and wait are set aside (ask_user and stop never reach the executor)
TargetCheckedKinds == {"click", "type_text", "press_key", "scroll"}

C7_HighRiskApproved ==
  (Executed /\ lastExec.action.risk = "high") => lastExec.riskApproved

\* C7 amended: an action of risk tier high that the executor receives was
\* approved by the human in the same step, unless it is an input action that
\* proposal mode rewrote into the propose no-op.
C7_HighRiskApprovedUnlessProposal ==
  (Executed /\ lastExec.action.risk = "high"
     /\ ~(lastExec.rewritten /\ lastExec.action.type = "propose")) =>
       lastExec.riskApproved

C7_Witness ==
  /\ prog = "cli"
  /\ Executed
  /\ lastExec.action.risk = "high"
  /\ lastExec.action.type = "press_key"
  /\ lastExec.riskApproved

\* the risk vocabulary as the claim C8 lists it
RiskVocabulary ==
  { "submit", "send", "publish", "delete", "pay", "purchase", "order",
    "transfer", "confirm", "remove", "grant", "permission", "upload",
    "download", "install", "uninstall" }

MentionsRisk(act) ==
  \E kw \in RiskVocabulary :
     \/ includes(toLowerCase(act.text), kw)
     \/ includes(toLowerCase(act.expect), kw)
     \/ includes(toLowerCase(act.rationale), kw)

\* C8: an action whose text, expected effect or rationale contains a word of
\* the risk vocabulary was approved by the human before the executor performs
\* it, whatever its risk tier (the propose no-op, which performs nothing, is
\* left out).
C8_KeywordApproved ==
  (Executed /\ lastExec.action.type # "propose" /\ MentionsRisk(lastExec.action))
     => lastExec.riskApproved

\* the hostname test of the claims C9 and C10, computed from the position of
\* the entry inside the hostname
HostUnder(hostname, entry) ==
  \/ hostname = entry
  \/ \E k \in 2..Len(hostname) :
        /\ Char(hostname, k - 1) = "."
        /\ SubSeq(hostname, k, Len(hostname)) = entry

OutsideAllowlist(url, list) ==
  \/ ~ParseURL(url).ok
  \/ \A i \in 1..Len(list) :
        ~HostUnder(toLowerCase(ParseURL(url).hostname), toLowerCase(list[i]))

\* the allowlists a run can hold: the one it was started with, and that one
\* with the hostname of an approved starting page added
RunAllowlists ==
  AllowlistInputs \cup
    { Append(l, ParseURL(PageUrl(p)).hostname) : l \in AllowlistInputs, p \in Pages }

\* the verdict of OutsideAllowlist for every url a planner reply of the model
\* can carry, under every allowlist a run can hold
OutsideTable ==
  [ u \in { a.url : a \in OracleActions }, l \in RunAllowlists |->
      OutsideAllowlist(u, l) ]

\* C9 as stated: a navigate action the executor receives whose destination
\* is outside the allowlist, or does not parse, was approved in the same step.
C9_NavigationApproved ==
  (prog = "cli" /\ Executed /\ lastExec.action.type = "navigate"
     /\ OutsideTable[lastExec.action.url, allowlist]) => lastExec.navApproved

\* C9 amended: a navigate action with a non-empty url that the executor
\* receives and whose destination is outside the allowlist, or does not
\* parse, was approved in the same step.
C9_NonEmptyNavigationApproved ==
  (prog = "cli" /\ Executed /\ lastExec.action.type = "navigate"
     /\ lastExec.action.url # ""
     /\ OutsideTable[lastExec.action.url, allowlist]) => lastExec.navApproved

C9_Witness ==
  /\ prog = "cli"
  /\ Executed
  /\ lastExec.action.type = "navigate"
  /\ lastExec.action.url = "https://evil.test/"
  /\ lastExec.navApproved

\* C10 as stated: the result is true exactly when the url parses and its
\* lower-cased hostname equals an allowlist entry or ends with "." and then
\* that entry.
C10_MatchesEntryAsWritten ==
  qCalled =>
    (qResult <=> /\ ParseURL(qUrl).ok
                 /\ \E i \in 1..Len(qAllowlist) :
                      HostUnder(toLowerCase(ParseURL(qUrl).hostname), qAllowlist[i]))

\* C10 amended: the result is true exactly when the url parses and its
\* lower-cased hostname equals a lower-cased allowlist entry or ends with "."
\* and then that lower-cased entry.
C10_MatchesLowerCasedEntry ==
  qCalled => (qResult <=> ~OutsideAllowlist(qUrl, qAllowlist))

C10_Witness ==
  /\ qCalled
  /\ qUrl = "https://app.example.com/login"
  /\ qAllowlist = << "example.com" >>
  /\ qResult

\* C11: in proposal mode the Orchestrator's executor never receives a
\* move_mouse, click, type_text or press_key action: a planner output of one
\* of these kinds has become a propose action, for which the executor
\* reports that nothing was executed.
C11_ProposalNeverInputs ==
  (prog = "orch" /\ mode = "proposal") =>
     /\ Executed => lastExec.action.type \notin InputTypes
     /\ oracleReply.type \in InputTypes =>
          /\ action.type = "propose"
          /\ ~agentExecuteAction(action).executed

C11_Witness ==
  /\ prog = "orch" /\ mode = "proposal"
  /\ oracleReply.type = "press_key"
  /\ lastExec.step = currentStep
  /\ lastExec.action.type = "propose"
  /\ lastExec.rewritten

\* the history entries recorded for a step
EntriesOf(hist, step) == { i \in 1..Len(hist) : hist[i].step = step }

\* a gate prompt answered with no: the prompt was open, the run was not
\* interrupted, and the approval it asked for was not given
Declines ==
  /\ ~interrupted'
  /\ \/ pc = "navGate" /\ ~navApproved'
     \/ pc \in {"riskGate", "approval"} /\ ~riskApproved'

\* C12: when the human declines the prompt of a gated action, the executor
\* is not invoked, the step gets exactly one history entry, for the declined
\* action and with result failed (skipped in the Orchestrator), and control
\* is back at the head of the loop.
C12_DeclineRecordedNotExecuted ==
  [][Declines =>
       /\ pc' = "loop"
       /\ lastExec' = lastExec
       /\ lastExec.step # currentStep
       /\ currentStep' = currentStep
       /\ Len(history') = Len(history) + 1
       /\ SubSeq(history', 1, Len(history)) = history
       /\ EntriesOf(history', currentStep) = {Len(history')}
       /\ history'[Len(history')].action = action
       /\ history'[Len(history')].result =
            (IF prog = "orch" THEN "skipped" ELSE "failed")]_vars

C12_Witness ==
  /\ prog = "cli" /\ pc = "loop"
  /\ history # << >>
  /\ history[Len(history)].step = currentStep
  /\ history[Len(history)].error = "User blocked risky action"
  /\ history[Len(history)].action.risk = "high"
  /\ lastExec.step # currentStep

\* C13: when waitForChange returns after a successfully executed action,
\* the stuck counter becomes 0 on domChanged, stays as it was on
\* visionChanged alone, and grows by exactly 1 on timeout.
C13_StuckCounterUpdate ==
  [][(pc = "wait" /\ pc' = "loop") =>
       /\ changeResult'.called /\ ~changeResult'.threw
       /\ history[Len(history)].result = "success"
       /\ changeResult'.domChanged => stuckCounter' = 0
       /\ (changeResult'.visionChanged /\ ~changeResult'.domChanged) =>
            stuckCounter' = stuckCounter
       /\ changeResult'.timeout => stuckCounter' = stuckCounter + 1]_vars

C13_Witness ==
  /\ prog = "cli" /\ pc = "loop"
  /\ changeResult.visionChanged
  /\ stuckCounter = 2

\* the run is past its loop
Ending == {"summary", "finally", "done", "rejected"}

\* C14 as stated: once the stuck counter is 3 or more, the next step that
\* begins, unless its snapshot fails, opens the continue/abort prompt.
C14_PromptInNextStep ==
  [][(prog = "cli" /\ stuckCounter >= 3 /\ currentStep' = currentStep + 1
        /\ pc' # "finally") => pc' = "stuck"]_vars

\* C14 amended: the stuck counter reaches 3 only by a timeout result that
\* finds it at 2; the planner is never called while the counter is 3 or
\* more: a step that finds it so and gets past its snapshot and its CAPTCHA
\* check opens the continue/abort prompt instead of planning; continue
\* resets the counter to 0 and goes on to plan, abort ends the run with
\* nothing planned or executed in that step or after.
C14_StuckPrompt ==
  /\ [](pc = "plan" => stuckCounter < 3)
  /\ [][/\ (stuckCounter < 3 /\ stuckCounter' >= 3) =>
             (stuckCounter = 2 /\ stuckCounter' = 3 /\ changeResult'.timeout)
        /\ (prog = "cli" /\ pc = "loop" /\ pc' \in {"plan", "stuck"}) =>
             (pc' = "stuck" <=> stuckCounter >= 3)
        /\ pc = "stuck" =>
             \/ pc' = "plan" /\ stuckCounter' = 0
             \/ /\ pc' = "summary"
                /\ action = NoAction /\ action' = NoAction
                /\ lastExec' = lastExec /\ lastExec.step # currentStep
        /\ (prog = "cli" /\ pc \in Ending) =>
             /\ pc' \in Ending
             /\ action' = action /\ lastExec' = lastExec
             /\ history' = history]_vars

C14_Witness ==
  /\ prog = "cli" /\ pc = "summary"
  /\ stuckCounter = 3
  /\ action = NoAction
  /\ Len(history) = 3
  /\ \A i \in 1..3 : history[i].result = "success"

\* how many of the three flags of a change result are set
FlagsSet(r) ==
  (IF r.domChanged THEN 1 ELSE 0) + (IF r.visionChanged THEN 1 ELSE 0)
    + (IF r.timeout THEN 1 ELSE 0)

\* C15: every result that waitForChange returns has exactly one of
\* domChanged, visionChanged and timeout set, whatever the polls meet.
C15_ExactlyOneFlag ==
  (wResult.called /\ ~wResult.threw) => FlagsSet(wResult) = 1

C15_Witness ==
  /\ wResult.called
  /\ wResult.visionChanged
  /\ Len(wArgs.polls) = 2
  /\ wArgs.quietFrom = 2
  /\ wArgs.polls[1].vision = Vision({})

\* C16: when the planner of runAgent returns a stop action the run ends in
\* that step with the executor not invoked, and the success flag of the
\* final summary is that action's done flag.
C16_StopSuccessIsDone ==
  (prog = "cli" /\ action.type = "stop" /\ finalSummaries # << >>) =>
     /\ lastExec.step # currentStep
     /\ finalSummaries[1].success = action.done

\* C17: with the local heuristic planner alone, on a page with one empty
\* text input labeled Email and a submit button, a run whose step 1 filled
\* the input and whose step 2 planned stop(done = true) has ended after 2
\* steps with success true in its final summary.
C17_HeuristicRunSucceeds ==
  (/\ prog = "cli" /\ pc = "done"
   /\ dom.page = "signup"
   /\ oracleReplies = 0
   /\ Len(history) = 1
   /\ history[1].step = 1
   /\ history[1].action.type = "type_text"
   /\ history[1].action.targetId = "input:Email:0"
   /\ history[1].result = "success"
   /\ currentStep = 2
   /\ action.type = "stop" /\ action.done)
  => /\ Len(finalSummaries) = 1
     /\ finalSummaries[1].success

\* a planning call in which the oracle gave nothing usable
OracleFailedInPlan ==
  /\ oracleReply' = NoAction
  /\ \/ prog = "cli" /\ pc = "plan"
     \/ prog = "orch" /\ pc = "loop" /\ currentStep' = currentStep + 1

C19_SnapshotThrowKeepsRunning ==
  (prog = "cli" /\ changeResult.threw) =>
     pc \notin {"finally", "done", "rejected"}

\* the (id, label) pairs of a list of targets, in order
IdLabelPairs(targets) ==
  [i \in 1..Len(targets) |-> << targets[i].id, targets[i].label >>]

\* two page states with the same url, title and ordered (id, label) pairs
SamePageState(a, b) ==
  /\ a.url = b.url
  /\ a.title = b.title
  /\ IdLabelPairs(a.targets) = IdLabelPairs(b.targets)

\* C20: the canonical strings of two page states, and so their page hashes,
\* differ exactly when the url, the title or the ordered list of (id, label)
\* pairs differ.
C20_HashDiffersIffStateDiffers ==
  hResult.called =>
    /\ (hResult.strings[1] # hResult.strings[2])
         <=> ~SamePageState(hArgs[1], hArgs[2])
    /\ (hResult.hashes[1] # hResult.hashes[2])
         <=> ~SamePageState(hArgs[1], hArgs[2])

\* the identifiers of a list of targets, in order
TargetIds(targets) == [i \in 1..Len(targets) |-> targets[i].id]

RECURSIVE RenderedOf(_)
RenderedOf(elements) ==
  IF elements = << >> THEN << >>
  ELSE IF Head(elements).rendered
  THEN << Head(elements) >> \o RenderedOf(Tail(elements))
  ELSE RenderedOf(Tail(elements))

\* C22: a snapshot holds at most 40 targets, and they are the first 40
\* rendered elements of the page, or all of them when there are fewer, in
\* document order.
C22_FirstFortyVisible ==
  \A k \in 1..Len(sResult) :
    LET visible == RenderedOf(sArgs.elements)
        kept == IF Len(visible) <= 40 THEN Len(visible) ELSE 40
        targets == sResult[k].targets
    IN /\ Len(targets) <= 40
       /\ Len(targets) = kept
       /\ \A i \in 1..kept : targets[i].label = elementLabel(visible[i])

\* a step's ask_user prompt is answered
AskAnswered == pc = "askUser" /\ history' # history

CaptchaPaused ==
  prog = "cli" /\ pc = "loop" /\ currentStep > 0 /\ action = NoAction

\* C24: a step paused by the CAPTCHA check plans nothing, executes nothing,
\* appends nothing to the history and leaves the stuck counter as it was,
\* and once the pause is over the loop takes a fresh snapshot.
C24_CaptchaPauseThenReobserve ==
  [][/\ (prog = "cli" /\ pc = "loop" /\ pc' = "loop") =>
          /\ currentStep' = currentStep + 1
          /\ action' = NoAction /\ oracleReply' = NoAction
          /\ oracleReplies' = oracleReplies
          /\ lastExec' = lastExec
          /\ history' = history
          /\ stuckCounter' = stuckCounter
     /\ CaptchaPaused =>
          /\ currentStep' = currentStep + 1
          /\ pc' = "finally" \/ dom' = DomSnapshots[page]]_vars

KnownKinds == {"click", "type_text", "press_key", "scroll", "wait",
               "navigate", "ask_user", "stop"}

MissingField(a) ==
  \/ a.type \in {"click", "type_text"} /\ a.targetId = ""
  \/ a.type = "type_text" /\ a.text = ""
  \/ a.type = "press_key" /\ a.key = ""
  \/ a.type = "navigate" /\ a.url = ""

TargetAbsent(a, snapshot) ==
  /\ a.type \in {"click", "type_text"}
  /\ \A i \in 1..Len(snapshot.targets) : snapshot.targets[i].id # a.targetId

\* C25: executeAction always comes back with a result and never with an
\* exception; an unknown kind, a missing targetId, text, key or url, a target
\* absent from the snapshot and a browser operation that throws each give a
\* failure that carries an error message, after at most one browser
\* operation; stop and ask_user give success with no browser operation
C25_ExecutorReturnsFailures ==
  \A k \in 1..Len(eResult) :
    LET a == eArgs.action
        r == eResult[k].returned
        ops == eResult[k].browserOps
        failed == ~r.success /\ r.error # ""
    IN /\ DOMAIN r = {"success", "error"}
       /\ Len(ops) <= 1
       /\ a.type \notin KnownKinds => failed /\ ops = << >>
       /\ MissingField(a) => failed /\ ops = << >>
       /\ TargetAbsent(a, eArgs.dom) => failed /\ ops = << >>
       /\ (ops # << >> /\ ~eArgs.opOk) => failed
       /\ a.type \in {"stop", "ask_user"} => r.success /\ ops = << >>

C25_Witness ==
  /\ prog = "exec" /\ eResult # << >>
  /\ eArgs.action.type = "click" /\ ~eArgs.opOk
  /\ eResult[1].browserOps = << "locator.click" >>
  /\ ~eResult[1].returned.success

\* the page has a domain: it is not the blank page the check passes over
HasDomain(p) == PageUrl(p) \notin {"", "about:blank"}

StartsFirstStep == prog = "cli" /\ pc = "loop" /\ currentStep = 0 /\ currentStep' = 1

PollDiffers(i) ==
  /\ wArgs.polls[i].page # "throws"
  /\ LET currentDom == DomSnapshots[wArgs.polls[i].page]
         prevDom == DomSnapshots[wArgs.prevPage]
     IN \/ currentDom.pageHash # prevDom.pageHash
        \/ currentDom.url # prevDom.url
        \/ Len(currentDom.alerts) # Len(prevDom.alerts)

\* intersection over union of the two snippet sets, 1 for an empty union,
\* is strictly below 0.7
SimilarityBelow(a, b) ==
  a \cup b # {} /\ 10 * Cardinality(a \cap b) < 7 * Cardinality(a \cup b)

\* the i-th poll, with the DOM unchanged, meets a perception that differs
\* enough, a second or more after the call began
PollSeesVision(i) ==
  /\ i >= wArgs.quietFrom
  /\ wArgs.polls[i].vision.present
  /\ SimilarityBelow(wArgs.prevVision.snippets, wArgs.polls[i].vision.snippets)

\* the call is still polling when it comes to its i-th poll
StillPolling(i) ==
  \A j \in 1..(i - 1) :
    wArgs.polls[j].page # "throws" /\ ~PollDiffers(j) /\ ~PollSeesVision(j)

\* C27: waitForChange returns domChanged, with the snapshot of that poll, at
\* the first poll whose page hash, url or alert count differs from the
\* baseline, and a domChanged result is one of such a poll; the DOM is
\* compared before the perception, so that poll is never reported as
\* visionChanged, whatever the perception shows
C27_DomChangeAtFirstDifference ==
  (wResult.called /\ ~wResult.threw) =>
    /\ \A i \in 1..Len(wArgs.polls) :
         (StillPolling(i) /\ PollDiffers(i)) =>
           /\ wResult.domChanged /\ wResult.changed
           /\ ~wResult.visionChanged /\ ~wResult.timeout
           /\ wResult.newPage = wArgs.polls[i].page
    /\ wResult.domChanged =>
         \E i \in 1..Len(wArgs.polls) : StillPolling(i) /\ PollDiffers(i)

C27_Witness ==
  /\ wResult.called /\ wResult.domChanged
  /\ Len(wArgs.polls) = 2
  /\ ~PollDiffers(1) /\ PollDiffers(2) /\ PollSeesVision(2)
  /\ wArgs.polls[2].page # wArgs.polls[1].page

\* C28: waitForChange returns visionChanged only at a poll made a second or
\* more after the call began, every poll up to it having found the DOM
\* unchanged, where a perception snapshot is present and the Jaccard
\* similarity (intersection over union, 1 for an empty union) of the
\* snippets held at the start of the call and the current ones is strictly
\* below 0.7; the result carries that poll's snapshot, and polls that meet
\* no perception snapshot never give visionChanged
C28_VisionChangeOnlyWhenQuiet ==
  (wResult.called /\ ~wResult.threw) =>
    /\ wResult.visionChanged =>
         \E i \in 1..Len(wArgs.polls) :
           /\ StillPolling(i)
           /\ \A j \in 1..i : ~PollDiffers(j)
           /\ PollSeesVision(i)
           /\ wResult.newPage = wArgs.polls[i].page
           /\ ~wResult.domChanged /\ ~wResult.timeout
    /\ (\A i \in 1..Len(wArgs.polls) : ~wArgs.polls[i].vision.present)
         => ~wResult.visionChanged

C28_Witness ==
  /\ wResult.called /\ wResult.visionChanged
  /\ Len(wArgs.polls) = 2 /\ wArgs.quietFrom = 2
  /\ wArgs.prevVision.present
  /\ wArgs.polls[1].vision = Vision({})
  /\ wArgs.polls[2].vision = Vision({})

\* C29: a result of waitForChange with timeout set carries a snapshot with
\* the page hash, the url and the alert count of the baseline, also when the
\* page changes between the last poll and the snapshot taken after the loop
C29_TimeoutMeansUnchanged ==
  (wResult.called /\ ~wResult.threw /\ wResult.timeout) =>
    LET newDom == DomSnapshots[wResult.newPage]
        prevDom == DomSnapshots[wArgs.prevPage]
    IN /\ newDom.pageHash = prevDom.pageHash
       /\ newDom.url = prevDom.url
       /\ Len(newDom.alerts) = Len(prevDom.alerts)

StepEnds ==
  /\ prog = "cli" /\ pc \in {"navGate", "riskGate", "execute", "wait"}
  /\ pc' = "loop"

\* C31: at the start of every step the stuck counter is the number of
\* immediately preceding consecutive steps in which no DOM change was
\* detected, counted since the last continue answer: a step that ends with a
\* detected DOM change leaves it at 0 and a step that ends without one, by a
\* timeout, a vision-only change, an executor failure or a declined
\* approval, leaves it one higher than it was
C31_CounterCountsQuietSteps ==
  [][StepEnds =>
       stuckCounter' = IF changeResult'.domChanged THEN 0
                       ELSE stuckCounter + 1]_vars

AriaRoles == {"button", "link", "checkbox"}

\* C32: a target extracted from an element that carries the ARIA role
\* button, link or checkbox has that role whatever the element's tag (on a
\* page none of whose elements is skipped the i-th target is the i-th
\* element's, as its label shows)
C32_AriaRoleWins ==
  \A k \in 1..Len(sResult) :
    LET elements == sArgs.elements
        targets == sResult[k].targets
    IN (\A j \in 1..Len(targets) : targets[j].label = elementLabel(elements[j]))
         => \A i \in 1..Len(targets) :
              elements[i].ariaRole \in AriaRoles
                => targets[i].role = elements[i].ariaRole

\* C33: for every target of a snapshot the executor builds the locator from
\* the descriptor stored in the target: getByRole with the recorded role and
\* accessible name when locatorType is role, locator with the recorded
\* selector when it is css; the text=label fallback is used only for a
\* target without a descriptor for its locator type
C33_LocatorFromDescriptor ==
  \A i \in 1..Len(lResult) :
    LET target == lResult[i].target
        locator == lResult[i].locator
    IN /\ target.locatorType = "role" =>
            /\ locator.call = "getByRole"
            /\ locator.arg = target.locatorValue.role
            /\ locator.name = target.locatorValue.name
       /\ target.locatorType = "css" =>
            /\ locator.call = "locator"
            /\ locator.arg = target.locatorValue.selector

\* the records of the action log for a step
RecordsOf(step) == { j \in 1..Len(actionLog) : actionLog[j].step = step }

\* C34: the action log of the run recorder and the history agree: no step
\* has more than one action record, and every history entry, those of
\* declined navigations and declined risky actions included, has exactly
\* one action record, with its step and its result
C34_LogMatchesHistory ==
  /\ \A j \in 1..Len(actionLog) : Cardinality(RecordsOf(actionLog[j].step)) = 1
  /\ \A i \in 1..Len(history) :
       /\ Cardinality(RecordsOf(history[i].step)) = 1
       /\ \A j \in RecordsOf(history[i].step) :
            actionLog[j].result = history[i].result

\* the targets of a snapshot the heuristic planner has still to propose,
\* given the history: the inputs no type_text entry names and the selects
\* and checkboxes no click entry names
Attempted(hist, type) ==
  { hist[i].action.targetId : i \in { j \in 1..Len(hist) : hist[j].action.type = type } }

FormTargets(snapshot) ==
  { i \in 1..Len(snapshot.targets) :
      snapshot.targets[i].role \in {"input", "select", "checkbox"} }

FreshTargets(snapshot, hist) ==
  { i \in FormTargets(snapshot) :
      LET t == snapshot.targets[i]
      IN IF t.role = "input"
         THEN t.id \notin Attempted(hist, "type_text") /\ ~includes(t.label, "checkbox")
         ELSE t.id \notin Attempted(hist, "click") }

\* the oracle has failed on every step of the run so far
HeuristicRun == prog = "cli" /\ started /\ oracleReplies = 0

C36_OrdinalIsPosition ==
  \A k \in 1..Len(sResult) :
    LET targets == sResult[k].targets
    IN /\ \A i, j \in 1..Len(targets) : targets[i].id = targets[j].id => i = j
       /\ \A i \in 1..Len(targets) :
            endsWith(targets[i].id, "_:" \o ToString(i - 1))
              \/ \E c \in AlnumChars :
                   endsWith(targets[i].id, c \o ":" \o ToString(i - 1))

C36_Witness ==
  /\ sResult # << >>
  /\ Len(sResult[1].targets) = MAX_TARGETS
  /\ ~sArgs.elements[4].rendered
  /\ sArgs.elements[5].rendered
  /\ endsWith(sResult[1].targets[4].id, ":3")

\* C37: the history is append-only with at most one entry per step: a step
\* of the program leaves it as it is or appends one entry, for the current
\* step; the entries' step numbers are strictly increasing and the history
\* is never longer than currentStep, in runAgent and in the Orchestrator
C37_HistoryAppendOnly ==
  [][ /\ \/ history' = history
         \/ /\ Len(history') = Len(history) + 1
            /\ SubSeq(history', 1, Len(history)) = history
            /\ history'[Len(history')].step = currentStep'
      /\ \A i \in 2..Len(history') : history'[i - 1].step < history'[i].step
      /\ Len(history') <= currentStep'
    ]_vars

C37_Witness ==
  /\ prog = "cli" /\ currentStep = 4
  /\ Len(history) = 2
  /\ history[1].step = 2 /\ history[2].step = 4
  /\ history[1].error = "User blocked navigation"

\* a step of runAgent begins with the stuck counter at the threshold
StartsStuckStep ==
  /\ prog = "cli" /\ pc = "loop" /\ currentStep' = currentStep + 1
  /\ stuckCounter = StuckThreshold

\* the counter stays within 0..3 and rises by 1 at most, in the step of the
\* run that takes the result of waitForChange after an executed action; the
\* prompt resets it or ends the run
CounterBounded ==
  /\ stuckCounter' \in 0..StuckThreshold
  /\ stuckCounter' > stuckCounter =>
       /\ stuckCounter' = stuckCounter + 1
       /\ pc = "wait" /\ lastExec.step = currentStep
  /\ pc = "stuck" => (stuckCounter' = 0 \/ pc' = "summary")

\* C38 as stated: in runAgent 0 <= stuckCounter <= 3, the counter rises by 1
\* at most and in an executed step only, and a step that starts with the
\* counter at 3 resets it to 0 or ends the run
C38_StuckStepResetsOrEnds ==
  [][prog = "cli" =>
       /\ CounterBounded
       /\ StartsStuckStep => pc' \in {"stuck", "finally"}]_vars

\* C38 amended: in runAgent 0 <= stuckCounter <= 3, the counter rises by 1
\* at most and in an executed step only, and a step that starts with the
\* counter at 3 is paused for a CAPTCHA and ends with the counter still at
\* 3 and nothing planned or executed, or comes to the prompt, which resets
\* the counter to 0 or ends the run, or ends the run by a thrown snapshot
C38_StuckCounterBounded ==
  [][prog = "cli" =>
       /\ CounterBounded
       /\ StartsStuckStep =>
            \/ pc' \in {"stuck", "finally"}
            \/ /\ pc' = "loop" /\ action' = NoAction
               /\ stuckCounter' = StuckThreshold
               /\ history' = history /\ lastExec' = lastExec]_vars

C38_Witness ==
  /\ prog = "cli" /\ pc = "loop" /\ currentStep = 4
  /\ stuckCounter = StuckThreshold
  /\ action = NoAction
  /\ Len(history) = 3

C40_OneTimerWhileRunning ==
  /\ [](prog = "streamer" =>
          /\ Cardinality(timers.active) <= 1
          /\ isRunning <=> timers.active # {})
  /\ [][prog = "streamer" =>
          /\ (wire'.op = "start" /\ streamer.running) => timers' = timers
          /\ wire'.op = "stop" => timers'.active = {}
          /\ (wire'.op = "tick" /\ (~streamer.page \/ streamer.clients = {}))
               => wire'.frames = wire.frames /\ timers'.capturing = timers.capturing]_vars

C40_Witness ==
  /\ prog = "streamer"
  /\ wire.op = "start" /\ wire.effect = "none"
  /\ timers.created = 2 /\ timers.active = {2}
  /\ isRunning
  /\ wire.frames > 0

====
